---- MODULE Spec2Model ----
(***************************************************************************)
(* Reward strategies of myGym (myGym/envs/rewards.py) as state machines.   *)
(*                                                                         *)
(* One reward object is constructed (cls names its class); the             *)
(* environment then calls compute once per simulation step and reset at    *)
(* episode boundaries.  Every method of the source is an operator from     *)
(* the object's fields (and the environment, the simulation) to the new    *)
(* fields and the result; an action applies a whole compute or reset.      *)
(*                                                                         *)
(* Numbers.  Lengths are integers, in millimetres: 0.1 m is 100.           *)
(* A quotient is an exact fraction [num, den]; a Python None is None (-1)  *)
(* for a number and NonePos (the empty tuple) for a position; coordinates  *)
(* of positions are never negative.                                        *)
(***************************************************************************)
EXTENDS Integers, Sequences, FiniteSets, TLC

VARIABLES
    cls,    \* class of the constructed reward object
    self,   \* its fields
    env,    \* the environment's episode fields (self.env)
    sim,    \* the simulation (self.env.p): constraints that exist
    call,   \* the last call made on the object: operation, inputs, result
    frame   \* local variables of a method that is run step by step

vars == <<cls, self, env, sim, call, frame>>

(***************************************************************************)
(* Bounds of the model                                                     *)
(***************************************************************************)
\* compute calls made on one object
MaxCalls == 3

(***************************************************************************)
(* Arithmetic                                                              *)
(***************************************************************************)
None == -1
NonePos == <<>>

Abs(x) == IF x < 0 THEN -x ELSE x

RECURSIVE GCD(_, _)
GCD(a, b) == IF b = 0 THEN a ELSE GCD(b, a % b)

\* the fraction n/d (d > 0) in lowest terms
Rat(n, d) ==
    LET g == GCD(Abs(n), d)
    IN  [num |-> n \div g, den |-> d \div g]

RatAdd(p, q) == Rat(p.num * q.den + q.num * p.den, p.den * q.den)

RatInt(k) == [num |-> k, den |-> 1]

\* r * r <= n, for r whose square is a 32-bit integer
SqLe(r, n) == r <= 46340 /\ r * r <= n

\* the digit k of a square root: the largest with (base + k * step)^2 <= n
SqrtDigit(n, base, step) ==
    CHOOSE k \in 0..35 :
        /\ SqLe(base + k * step, n)
        /\ (k = 35 \/ ~SqLe(base + (k + 1) * step, n))

\* the element of a one-element set
Only(S) == CHOOSE x \in S : TRUE

\* math.sqrt, to the whole unit below (n < 2^31), digit by digit to base 36;
\* n and the digits are bound as values, so that each is worked out once
ISqrt(n) ==
    Only({Only({Only({d2 * 1296 + d1 * 36 + SqrtDigit(v, d2 * 1296 + d1 * 36, 1) :
                      d1 \in {SqrtDigit(v, d2 * 1296, 36)}}) :
                d2 \in {SqrtDigit(v, 0, 1296)}}) :
          v \in {n}})

RECURSIVE SumSq(_, _)
SumSq(p, q) ==
    IF p = <<>> THEN 0
    ELSE (Head(p) - Head(q)) * (Head(p) - Head(q)) + SumSq(Tail(p), Tail(q))

\* observation[i:j] of Python (0-based, j excluded)
Slice(obs, i, j) == SubSeq(obs, i + 1, j)

VecAdd(p, q) == [i \in 1..Len(p) |-> p[i] + q[i]]

(***************************************************************************)
(* Collaborators                                                           *)
(***************************************************************************)
\* task.calc_distance(p1, p2): the Euclidean distance
calc_distance(p1, p2) == ISqrt(SumSq(p1, p2))

\* a threshold check of the task (check_reach_distance_threshold,
\* check_distance_threshold, check_pnp_threshold, ...): when it hits, it ends
\* the episode
task_check(e, hit) == IF hit THEN [e EXCEPT !.episode_over = TRUE] ELSE e

\* the gripper's direction vector [0, 0, 0.1] as the simulation's orientation
\* of the end effector rotates it
Orientations == {<<0, 0, 100>>, <<100, 0, 0>>}

\* Reward.get_accurate_gripper_position: the gripper position moved by the
\* rotated direction vector
get_accurate_gripper_position(gripper_position, rot) ==
    VecAdd(gripper_position, rot)

EnvInit ==
    [episode_over |-> FALSE, episode_failed |-> FALSE, episode_info |-> "",
     episode_steps |-> 0, reward_type |-> "gt"]

\* the environment counts the step before it asks for the reward
EnvStep(e) == [e EXCEPT !.episode_steps = @ + 1]

\* the environment's own reset, which precedes reward.reset
EnvReset(e) ==
    [e EXCEPT !.episode_over = FALSE, !.episode_failed = FALSE,
              !.episode_info = "", !.episode_steps = 0]

SimInit == [constraints |-> {}, created |-> 0]

\* op: the operation; n: compute calls made so far; first: whether the call was
\* the first compute since construction or reset; obs, rot: the observation and
\* the simulation's orientation answer; ret, exc: the result
CallInit ==
    [op |-> "init", n |-> 0, first |-> FALSE, obs |-> <<>>, rot |-> <<>>,
     ret |-> None, exc |-> ""]

FrameIdle == [pc |-> "idle"]

\* what a method hands back: the object's fields, the environment, the
\* returned value, and the exception it raised ("" when it returned)
Returned(s, e, r) == [self |-> s, env |-> e, ret |-> r, exc |-> ""]
Raised(s, e, x) == [self |-> s, env |-> e, ret |-> None, exc |-> x]

\* exit("decision error") in compute of the composite strategies, for an owner
\* outside the phases: SystemExit, before last_owner is stored
DecisionError(s, e) == Raised(s, e, "SystemExit")

(***************************************************************************)
(* DistanceReward                                                          *)
(***************************************************************************)
DR_init ==
    [rewards_history |-> <<>>,
     prev_obj1_position |-> NonePos,
     prev_obj2_position |-> NonePos,
     prev_diff |-> None]

DR_reset(s) ==
    [s EXCEPT !.prev_obj1_position = NonePos,
              !.prev_obj2_position = NonePos]

\* mutant: the quotient taken over the current distance
DR_calc_dist_diff_current(s, e, obj1_position, obj2_position) ==
    LET s1 == IF s.prev_obj1_position = NonePos /\ s.prev_obj2_position = NonePos
              THEN [s EXCEPT !.prev_obj1_position = obj1_position,
                             !.prev_obj2_position = obj2_position]
              ELSE s
        prev_diff == calc_distance(s1.prev_obj1_position, s1.prev_obj2_position)
        s2 == [s1 EXCEPT !.prev_diff = prev_diff]
        current_diff == calc_distance(obj1_position, obj2_position)
    IN  IF current_diff = 0 THEN Raised(s2, e, "ZeroDivisionError")
        ELSE Returned([s2 EXCEPT !.prev_obj1_position = obj1_position,
                                 !.prev_obj2_position = obj2_position],
                      e, Rat(prev_diff - current_diff, current_diff))

\* mutant: the previous positions are not initialised on the first call but
\* taken as the origin
DR_calc_dist_diff_noinit(s, e, obj1_position, obj2_position) ==
    LET s1 == IF s.prev_obj1_position = NonePos /\ s.prev_obj2_position = NonePos
              THEN [s EXCEPT !.prev_obj1_position = [i \in 1..Len(obj1_position) |-> 0],
                             !.prev_obj2_position = obj2_position]
              ELSE s
        prev_diff == calc_distance(s1.prev_obj1_position, s1.prev_obj2_position)
        s2 == [s1 EXCEPT !.prev_diff = prev_diff]
        current_diff == calc_distance(obj1_position, obj2_position)
    IN  IF prev_diff = 0 THEN Raised(s2, e, "ZeroDivisionError")
        ELSE Returned([s2 EXCEPT !.prev_obj1_position = obj1_position,
                                 !.prev_obj2_position = obj2_position],
                      e, Rat(prev_diff - current_diff, prev_diff))

\* mutant: a zero previous distance silently yields the reward 0
DR_calc_dist_diff_silent(s, e, obj1_position, obj2_position) ==
    LET s1 == IF s.prev_obj1_position = NonePos /\ s.prev_obj2_position = NonePos
              THEN [s EXCEPT !.prev_obj1_position = obj1_position,
                             !.prev_obj2_position = obj2_position]
              ELSE s
        prev_diff == calc_distance(s1.prev_obj1_position, s1.prev_obj2_position)
        s2 == [s1 EXCEPT !.prev_diff = prev_diff]
        current_diff == calc_distance(obj1_position, obj2_position)
    IN  Returned([s2 EXCEPT !.prev_obj1_position = obj1_position,
                            !.prev_obj2_position = obj2_position],
                 e, IF prev_diff = 0 THEN RatInt(0)
                    ELSE Rat(prev_diff - current_diff, prev_diff))

DR_calc_dist_diff(s, e, obj1_position, obj2_position) ==
    LET s1 == IF s.prev_obj1_position = NonePos /\ s.prev_obj2_position = NonePos
              THEN [s EXCEPT !.prev_obj1_position = obj1_position,
                             !.prev_obj2_position = obj2_position]
              ELSE s
        prev_diff == calc_distance(s1.prev_obj1_position, s1.prev_obj2_position)
        s2 == [s1 EXCEPT !.prev_diff = prev_diff]
        current_diff == calc_distance(obj1_position, obj2_position)
    IN  IF prev_diff = 0 THEN Raised(s2, e, "ZeroDivisionError")
        ELSE Returned([s2 EXCEPT !.prev_obj1_position = obj1_position,
                                 !.prev_obj2_position = obj2_position],
                      e, Rat(prev_diff - current_diff, prev_diff))

\* the two tracked entities of an observation (compute, lines 88-89)
DR_o1(e, observation) ==
    IF e.reward_type # "2dvu" THEN Slice(observation, 0, 3)
    ELSE Slice(observation, 0, (Len(observation) - 3) \div 2)

DR_o2(e, observation, rot) ==
    IF e.reward_type # "2dvu"
    THEN get_accurate_gripper_position(Slice(observation, 3, 6), rot)
    ELSE Slice(observation, (Len(observation) - 3) \div 2, Len(observation) - 3)

\* moved: task.check_object_moved's answer; hit: whether the task's
\* reach-distance check ends the episode
DR_compute(s, e, observation, rot, moved, hit) ==
    LET r == DR_calc_dist_diff(s, e, DR_o1(e, observation), DR_o2(e, observation, rot))
    IN  IF r.exc # "" THEN r
        ELSE LET e1 == IF moved THEN [e EXCEPT !.episode_over = TRUE,
                                               !.episode_failed = TRUE]
                       ELSE e
                 e2 == task_check(e1, hit)
             IN  Returned([r.self EXCEPT !.rewards_history = Append(@, r.ret)],
                          e2, r.ret)

(***************************************************************************)
(* ComplexDistanceReward                                                   *)
(***************************************************************************)
CDR_init == [f \in DOMAIN DR_init \cup {"prev_obj3_position"} |->
                IF f = "prev_obj3_position" THEN NonePos ELSE DR_init[f]]

CDR_reset(s) == [DR_reset(s) EXCEPT !.prev_obj3_position = NonePos]

\* mutant: every pair weighted once
CDR_calc_dist_diff_flat(s, e, obj1_position, obj2_position, obj3_position) ==
    LET s1 == IF /\ s.prev_obj1_position = NonePos
                 /\ s.prev_obj2_position = NonePos
                 /\ s.prev_obj3_position = NonePos
              THEN [s EXCEPT !.prev_obj1_position = obj1_position,
                             !.prev_obj2_position = obj2_position,
                             !.prev_obj3_position = obj3_position]
              ELSE s
        prev_diff_12 == calc_distance(s1.prev_obj1_position, s1.prev_obj2_position)
        current_diff_12 == calc_distance(obj1_position, obj2_position)
        prev_diff_13 == calc_distance(s1.prev_obj1_position, s1.prev_obj3_position)
        current_diff_13 == calc_distance(obj1_position, obj3_position)
        prev_diff_23 == calc_distance(s1.prev_obj2_position, s1.prev_obj3_position)
        current_diff_23 == calc_distance(obj2_position, obj3_position)
    IN  IF prev_diff_13 = 0 \/ prev_diff_23 = 0 \/ prev_diff_12 = 0
        THEN Raised(s1, e, "ZeroDivisionError")
        ELSE Returned([s1 EXCEPT !.prev_obj1_position = obj1_position,
                                 !.prev_obj2_position = obj2_position,
                                 !.prev_obj3_position = obj3_position],
                      e,
                      RatAdd(RatAdd(Rat(prev_diff_13 - current_diff_13, prev_diff_13),
                                    Rat(prev_diff_23 - current_diff_23, prev_diff_23)),
                             Rat(prev_diff_12 - current_diff_12, prev_diff_12)))

CDR_calc_dist_diff(s, e, obj1_position, obj2_position, obj3_position) ==
    LET s1 == IF /\ s.prev_obj1_position = NonePos
                 /\ s.prev_obj2_position = NonePos
                 /\ s.prev_obj3_position = NonePos
              THEN [s EXCEPT !.prev_obj1_position = obj1_position,
                             !.prev_obj2_position = obj2_position,
                             !.prev_obj3_position = obj3_position]
              ELSE s
        prev_diff_12 == calc_distance(s1.prev_obj1_position, s1.prev_obj2_position)
        current_diff_12 == calc_distance(obj1_position, obj2_position)
        prev_diff_13 == calc_distance(s1.prev_obj1_position, s1.prev_obj3_position)
        current_diff_13 == calc_distance(obj1_position, obj3_position)
        prev_diff_23 == calc_distance(s1.prev_obj2_position, s1.prev_obj3_position)
        current_diff_23 == calc_distance(obj2_position, obj3_position)
    IN  IF prev_diff_13 = 0 \/ prev_diff_23 = 0 \/ prev_diff_12 = 0
        THEN Raised(s1, e, "ZeroDivisionError")
        ELSE Returned([s1 EXCEPT !.prev_obj1_position = obj1_position,
                                 !.prev_obj2_position = obj2_position,
                                 !.prev_obj3_position = obj3_position],
                      e,
                      RatAdd(RatAdd(Rat(prev_diff_13 - current_diff_13, prev_diff_13),
                                    Rat(prev_diff_23 - current_diff_23, prev_diff_23)),
                             Rat(10 * (prev_diff_12 - current_diff_12), prev_diff_12)))

CDR_compute(s, e, observation, hit) ==
    LET r == CDR_calc_dist_diff(s, e, Slice(observation, 0, 3),
                                Slice(observation, 3, 6), Slice(observation, 6, 9))
    IN  IF r.exc # "" THEN r
        ELSE Returned([r.self EXCEPT !.rewards_history = Append(@, r.ret)],
                      task_check(e, hit), r.ret)

(***************************************************************************)
(* The distance-delta strategies: specification                            *)
(***************************************************************************)
DistClasses == {"DistanceReward", "ComplexDistanceReward"}

\* observations of DistanceReward: goal, gripper
DRObservations ==
    {<<0, 0, 100, 2000, 0, 0>>, <<0, 0, 100, 1000, 0, 0>>,
     <<0, 0, 100, 0, 0, 0>>, <<0, 0, 100, 0, 3000, 0>>}

\* observations of DistanceReward under reward_type 2dvu: two latent vectors
\* and three further entries
DRObservations2dvu ==
    {<<0, 0, 300, 400, 0, 0, 0>>, <<0, 0, 0, 100, 0, 0, 0>>,
     <<50, 50, 50, 50, 0, 0, 0>>}

\* observations of ComplexDistanceReward: three objects
CDRObservations ==
    {<<0, 0, 0, 2000, 0, 0, 1000, 3873, 0>>,
     <<0, 0, 0, 1000, 0, 0, 500, 1937, 0>>,
     <<0, 0, 0, 0, 0, 0, 1000, 0, 0>>,
     <<0, 0, 0, 1000, 0, 0, 1000, 0, 0>>}

RewardTypes == {"gt", "2dvu"}

InitDist ==
    /\ cls \in DistClasses
    /\ self = IF cls = "DistanceReward" THEN DR_init ELSE CDR_init
    /\ env \in {[EnvInit EXCEPT !.reward_type = t] : t \in
                  IF cls = "DistanceReward" THEN RewardTypes ELSE {"gt"}}
    /\ sim = SimInit
    /\ call = CallInit
    /\ frame = FrameIdle

\* what a call leaves behind
CallOf(observation, rot, r) ==
    [op |-> "compute", n |-> call.n + 1, first |-> call.op # "compute",
     obs |-> observation, rot |-> rot, ret |-> r.ret, exc |-> r.exc]

Apply(observation, rot, r) ==
    /\ self' = r.self
    /\ env' = r.env
    /\ call' = CallOf(observation, rot, r)
    /\ UNCHANGED <<cls, sim, frame>>

DRCompute ==
    /\ cls = "DistanceReward"
    /\ call.n < MaxCalls
    /\ \E observation \in (IF env.reward_type = "2dvu" THEN DRObservations2dvu
                           ELSE DRObservations),
          rot \in Orientations, moved \in BOOLEAN, hit \in BOOLEAN :
          Apply(observation, rot,
                DR_compute(self, EnvStep(env), observation, rot, moved, hit))

CDRCompute ==
    /\ cls = "ComplexDistanceReward"
    /\ call.n < MaxCalls
    /\ \E observation \in CDRObservations, hit \in BOOLEAN :
          Apply(observation, <<>>,
                CDR_compute(self, EnvStep(env), observation, hit))

DistReset ==
    /\ cls \in DistClasses
    /\ call.op = "compute"
    /\ self' = IF cls = "DistanceReward" THEN DR_reset(self) ELSE CDR_reset(self)
    /\ env' = EnvReset(env)
    /\ call' = [CallInit EXCEPT !.op = "reset", !.n = call.n]
    /\ UNCHANGED <<cls, sim, frame>>

NextDist == DRCompute \/ CDRCompute \/ DistReset

SpecDist == InitDist /\ [][NextDist]_vars

(***************************************************************************)
(* The distance-delta strategies: properties                               *)
(***************************************************************************)
RatScale(k, q) == Rat(k * q.num, q.den)

\* the positions a compute call of the distance-delta strategies tracks, as
\* the call record names them
TrackedOf(c) ==
    IF cls = "DistanceReward"
    THEN <<DR_o1(env, c.obs), DR_o2(env, c.obs, c.rot)>>
    ELSE <<Slice(c.obs, 0, 3), Slice(c.obs, 3, 6), Slice(c.obs, 6, 9)>>

\* the positions the object stores as the previous ones
StoredOf(s) ==
    IF cls = "DistanceReward"
    THEN <<s.prev_obj1_position, s.prev_obj2_position>>
    ELSE <<s.prev_obj1_position, s.prev_obj2_position, s.prev_obj3_position>>

Pairs(ps) == {<<i, j>> \in (1..Len(ps)) \X (1..Len(ps)) : i < j}

\* C3: the first compute call after construction or reset, on an observation
\* whose tracked pairwise distances are all nonzero, returns the reward 0
C3_FirstCallZero ==
    (/\ call.op = "compute"
     /\ call.first
     /\ \A ij \in Pairs(TrackedOf(call)) :
            calc_distance(TrackedOf(call)[ij[1]], TrackedOf(call)[ij[2]]) # 0)
    => (call.exc = "" /\ call.ret = RatInt(0))

\* a first call after a reset that returned 0, for either class
C3_Witness ==
    /\ call.op = "compute"
    /\ call.first
    /\ call.n > 1
    /\ call.exc = ""
    /\ call.ret = RatInt(0)
    /\ cls = "ComplexDistanceReward"

\* C8: a DistanceReward compute call that is not the first of its episode
\* returns (prevDist - currDist) / prevDist, prevDist between the positions the
\* previous call stored and currDist between the positions passed now, and
\* stores the passed positions
C8_NormalizedDelta ==
    [][(/\ cls = "DistanceReward"
        /\ call'.op = "compute"
        /\ ~call'.first
        /\ call'.exc = "")
       => LET prevDist == calc_distance(self.prev_obj1_position,
                                        self.prev_obj2_position)
              currDist == calc_distance(TrackedOf(call')[1], TrackedOf(call')[2])
          IN  /\ prevDist * call'.ret.num = (prevDist - currDist) * call'.ret.den
              /\ call'.ret.den > 0
              /\ self'.prev_obj1_position = TrackedOf(call')[1]
              /\ self'.prev_obj2_position = TrackedOf(call')[2]]_vars

\* prevDist = 2 (m), currDist = 1 (m) gave 0.5
C8_Witness ==
    /\ cls = "DistanceReward"
    /\ call.op = "compute"
    /\ call.exc = ""
    /\ self.prev_diff = 2000
    /\ calc_distance(self.prev_obj1_position, self.prev_obj2_position) = 1000
    /\ call.ret = [num |-> 1, den |-> 2]

\* C9: a ComplexDistanceReward compute call that is not the first of its
\* episode returns delta13 + delta23 + 10 * delta12, each delta the normalized
\* change (prev - curr) / prev of that pair's distance
C9_WeightedSum ==
    [][(/\ cls = "ComplexDistanceReward"
        /\ call'.op = "compute"
        /\ ~call'.first
        /\ call'.exc = "")
       => LET prev == StoredOf(self)
              curr == TrackedOf(call')
              delta(i, j) == Rat(calc_distance(prev[i], prev[j])
                                   - calc_distance(curr[i], curr[j]),
                                 calc_distance(prev[i], prev[j]))
          IN  call'.ret = RatAdd(RatScale(10, delta(1, 2)),
                                 RatAdd(delta(1, 3), delta(2, 3)))]_vars

\* prev12 = 2, curr12 = 1, prev13 = 4, curr13 = 2, prev23 = 4, curr23 = 2
\* gave 6
C9_Witness ==
    /\ cls = "ComplexDistanceReward"
    /\ call.op = "compute"
    /\ call.exc = ""
    /\ call.obs = <<0, 0, 0, 1000, 0, 0, 500, 1937, 0>>
    /\ Len(self.rewards_history) > 1
    /\ call.ret = RatInt(6)

\* the previous positions a compute call works with: the passed ones on the
\* first call of an episode, the stored ones afterwards
PrevInEffect(s, c) == IF c.first THEN TrackedOf(c) ELSE StoredOf(s)

\* C10: a compute call for which the previous distance of a tracked pair is 0
\* raises ZeroDivisionError, returns no reward and appends nothing to
\* rewards_history
C10_ZeroPrevRaises ==
    [][(/\ call'.op = "compute"
        /\ \E ij \in Pairs(TrackedOf(call')) :
              calc_distance(PrevInEffect(self, call')[ij[1]],
                            PrevInEffect(self, call')[ij[2]]) = 0)
       => (/\ call'.exc = "ZeroDivisionError"
           /\ call'.ret = None
           /\ self'.rewards_history = self.rewards_history)]_vars

\* a first call with coincident entities raised, after an earlier episode
\* had appended rewards
C10_Witness ==
    /\ call.op = "compute"
    /\ call.first
    /\ call.exc = "ZeroDivisionError"
    /\ Len(self.rewards_history) > 0

(***************************************************************************)
(* PokeReward.get_distance_from_poke_line, statement by statement          *)
(*                                                                         *)
(* Sides are in units of 0.00001 m, the step of the correction loops and   *)
(* the precision a, b and c are rounded to.                                *)
(***************************************************************************)
\* longest side drawn for a, b and c
MaxSide == 3

\* heights of the gripper (z) drawn
TriHeights == {0, 2}

\* 0.1 m, under which the poke counts as done (line 520)
PokeDoneDist == 10000

\* the loop conditions of lines 529, 532 and 535
Loop1Cond(a, b, c) == b + c <= a

\* mutant: a degenerate triangle (a + c = b) passes
Loop2Cond_strict(a, b, c) == a + c < b

Loop2Cond(a, b, c) == a + c <= b

Loop3Cond(a, b, c) == a + b <= c

\* 16 * five of triangle_height: 16 p (p - a) (p - b) (p - c)
Heron16(a, b, c) == (a + b + c) * (b + c - a) * (a + c - b) * (a + b - c)

\* a PokeReward whose compute is about to reach the method
InitTri ==
    /\ cls = "PokeReward"
    /\ self = [rewards_history |-> <<>>]
    /\ env = EnvInit
    /\ sim = SimInit
    /\ call = CallInit
    /\ frame = FrameIdle

\* lines 514-527: the method is entered with the gripper's previous height z
\* and the sides a, b, c, which it rounds
TriEnter ==
    /\ frame.pc = "idle"
    /\ \E a \in 0..MaxSide, b \in 0..MaxSide, c \in 0..MaxSide, z \in TriHeights :
          /\ env' = IF a < PokeDoneDist
                    THEN [env EXCEPT !.episode_info = "Successfull poke",
                                     !.episode_over = TRUE]
                    ELSE env
          /\ frame' = [pc |-> "loop1", a |-> a, b |-> b, c |-> c,
                       a0 |-> a, b0 |-> b, c0 |-> c, z |-> z, iters |-> 0,
                       distance |-> None, exc |-> ""]
    /\ UNCHANGED <<cls, self, sim, call>>

\* lines 529-530
TriLoop1 ==
    /\ frame.pc = "loop1"
    /\ frame' = IF Loop1Cond(frame.a, frame.b, frame.c)
                THEN [frame EXCEPT !.c = @ + 1, !.iters = @ + 1]
                ELSE [frame EXCEPT !.pc = "loop2"]
    /\ UNCHANGED <<cls, self, env, sim, call>>

\* lines 532-533
TriLoop2 ==
    /\ frame.pc = "loop2"
    /\ frame' = IF Loop2Cond(frame.a, frame.b, frame.c)
                THEN [frame EXCEPT !.c = @ + 1, !.iters = @ + 1]
                ELSE [frame EXCEPT !.pc = "loop3"]
    /\ UNCHANGED <<cls, self, env, sim, call>>

\* lines 535-536
TriLoop3 ==
    /\ frame.pc = "loop3"
    /\ frame' = IF Loop3Cond(frame.a, frame.b, frame.c)
                THEN [frame EXCEPT !.b = @ + 1, !.iters = @ + 1]
                ELSE [frame EXCEPT !.pc = "height"]
    /\ UNCHANGED <<cls, self, env, sim, call>>

\* lines 538-542 with triangle_height (lines 488-497): 2/a raises for a = 0,
\* math.sqrt for a negative five; the height is sqrt(16 five) / (2 a), of
\* which line 538 takes the square root (of its value in metres)
TriHeight ==
    /\ frame.pc = "height"
    /\ frame' =
         IF frame.a = 0
         THEN [frame EXCEPT !.pc = "raised", !.exc = "ZeroDivisionError"]
         ELSE IF Heron16(frame.a, frame.b, frame.c) < 0
         THEN [frame EXCEPT !.pc = "raised", !.exc = "ValueError"]
         ELSE LET height == ISqrt(Heron16(frame.a, frame.b, frame.c))
                                \div (2 * frame.a)
                  distanceXY == ISqrt(height * 100000)
              IN  [frame EXCEPT !.pc = "done",
                                !.distance = ISqrt(frame.z * frame.z
                                                   + distanceXY * distanceXY)]
    /\ UNCHANGED <<cls, self, env, sim, call>>

NextTri == TriEnter \/ TriLoop1 \/ TriLoop2 \/ TriLoop3 \/ TriHeight

\* the method runs to its end: no statement of it waits for anything
SpecTri == InitTri /\ [][NextTri]_vars /\ WF_vars(NextTri)

TriInequalities(f) ==
    /\ f.a + f.b > f.c
    /\ f.b + f.c > f.a
    /\ f.a + f.c > f.b

TriCorrected == frame.pc \in {"height", "done", "raised"}

Max3(a, b, c) == IF a >= b /\ a >= c THEN a ELSE IF b >= c THEN b ELSE c

GripDist == 100

\* object_above_goal: distance < 0.1
AboveGoalDist == 100

\* place_compute: dist < 0.05
PlaceDoneDist == 50

ReturnedSim(s, e, p, r) ==
    [self |-> s, env |-> e, sim |-> p, ret |-> r, exc |-> ""]

CPP_init ==
    [rewards_history |-> <<>>,
     last_owner |-> None,
     object_before_lift |-> NonePos,
     lifted |-> FALSE,
     grip |-> None,
     last_height |-> None,
     last_find_dist |-> None,
     last_lift_dist |-> None,
     last_move_dist |-> None,
     last_place_dist |-> None,
     owner |-> 0,
     finder_reward |-> 0,
     lifter_reward |-> 0,
     mover_reward |-> 0,
     placer_reward |-> 0]

CPP_reset(s) == [CPP_init EXCEPT !.rewards_history = s.rewards_history]

\* p.createConstraint: a new constraint, named by its number
CPP_grip_object(s, p) ==
    LET uid == p.created + 1
    IN  [self |-> [s EXCEPT !.grip = uid],
         sim |-> [constraints |-> p.constraints \cup {uid}, created |-> uid]]

CPP_release_object(s, p) ==
    [self |-> [s EXCEPT !.grip = None],
     sim |-> IF s.grip # None
             THEN [p EXCEPT !.constraints = @ \ {s.grip}]
             ELSE p]

CPP_get_positions(s, observation, rot) ==
    LET goal_position == Slice(observation, 0, 3)
        object_position == Slice(observation, 3, 6)
        gripper_position ==
            get_accurate_gripper_position(
                Slice(observation, Len(observation) - 3, Len(observation)), rot)
    IN  [self |-> IF s.object_before_lift = NonePos
                  THEN [s EXCEPT !.object_before_lift = object_position]
                  ELSE s,
         goal |-> goal_position, object |-> object_position,
         gripper |-> gripper_position]

\* a variant that grips the object and still reports it as not reached
CPP_gripper_reached_object_late(s, p, gripper, object) ==
    LET distance == calc_distance(gripper, object)
    IN  IF s.grip # None THEN [self |-> s, sim |-> p, ret |-> TRUE]
        ELSE IF distance < GripDist
        THEN LET g == CPP_grip_object(s, p)
             IN  [self |-> g.self, sim |-> g.sim, ret |-> FALSE]
        ELSE [self |-> s, sim |-> p, ret |-> FALSE]

CPP_gripper_reached_object(s, p, gripper, object) ==
    LET distance == calc_distance(gripper, object)
    IN  IF s.grip # None THEN [self |-> s, sim |-> p, ret |-> TRUE]
        ELSE IF distance < GripDist
        THEN LET g == CPP_grip_object(s, p)
             IN  [self |-> g.self, sim |-> g.sim, ret |-> TRUE]
        ELSE [self |-> s, sim |-> p, ret |-> FALSE]

\* [x, y, 0]
XY(position) == <<position[1], position[2], 0>>

CPP_object_above_goal(object, goal) ==
    calc_distance(XY(goal), XY(object)) < AboveGoalDist

CPP_decide(s, p, observation, rot) ==
    Only({Only({
        \* owner was set to 0 just before, so gripper_reached_object is called
        LET s1 == IF reached.ret
                  THEN [reached.self EXCEPT !.owner = @ + 1]
                  ELSE reached.self
            s2 == IF s1.owner = 1 /\ CPP_object_above_goal(gp.object, gp.goal)
                  THEN [s1 EXCEPT !.owner = @ + 1]
                  ELSE s1
        IN  [self |-> s2, sim |-> reached.sim, ret |-> s2.owner]
      : reached \in {CPP_gripper_reached_object([gp.self EXCEPT !.owner = 0], p,
                                                gp.gripper, gp.object)}})
      : gp \in {CPP_get_positions(s, observation, rot)}})

CPP_find_compute(s, e, p, gripper, object) ==
    LET dist == calc_distance(gripper, object)
        s1 == IF s.last_find_dist = None THEN [s EXCEPT !.last_find_dist = dist]
              ELSE s
        s2 == IF s1.last_owner # 0 THEN [s1 EXCEPT !.last_find_dist = dist]
              ELSE s1
        reward == s2.last_find_dist - dist
    IN  ReturnedSim([s2 EXCEPT !.last_find_dist = dist,
                               !.finder_reward = @ + reward],
                    e, p, reward)

CPP_move_compute(s, e, p, object, goal) ==
    LET height == object[3]
        dist == calc_distance(XY(object), XY(goal))
        s1 == IF s.last_move_dist = None
              THEN [s EXCEPT !.last_move_dist = dist, !.last_height = height]
              ELSE s
        s2 == IF s1.last_owner # 2
              THEN [s1 EXCEPT !.last_move_dist = dist, !.last_height = height]
              ELSE s1
        reward == (s2.last_move_dist - dist) + Abs(s2.last_height - height)
    IN  ReturnedSim([s2 EXCEPT !.last_move_dist = dist,
                               !.last_height = height,
                               !.mover_reward = @ + reward],
                    e, p, reward)

CPP_place_compute(s, e, p, object, goal) ==
    LET dist == calc_distance(object, goal)
        s1 == IF s.last_place_dist = None THEN [s EXCEPT !.last_place_dist = dist]
              ELSE s
        s2 == IF s1.last_owner # 3 THEN [s1 EXCEPT !.last_place_dist = dist]
              ELSE s1
        reward == s2.last_place_dist - dist
        s3 == [s2 EXCEPT !.last_place_dist = dist]
        placed == s3.last_owner = 3 /\ dist < PlaceDoneDist
        released == CPP_release_object(s3, p)
        s4 == IF placed THEN released.self ELSE s3
        p4 == IF placed THEN released.sim ELSE p
        e4 == IF placed
              THEN [e EXCEPT !.episode_over = TRUE,
                             !.episode_info = "Object was placed to desired position"]
              ELSE e
    IN  ReturnedSim([s4 EXCEPT !.placer_reward = @ + reward], e4, p4, reward)

\* hit: whether task.check_pnp_threshold ends the episode
CPP_compute(s, e, p, observation, rot, hit) ==
    Only({Only({Only({
        IF r.exc # ""
        THEN [self |-> r.self, env |-> r.env, sim |-> d.sim, ret |-> None,
              exc |-> r.exc]
        ELSE
        ReturnedSim([r.self EXCEPT !.last_owner = d.ret,
                                   !.rewards_history = Append(@, r.ret)],
                    task_check(r.env, hit), r.sim, r.ret)
      : r \in {IF d.ret = 0
               THEN CPP_find_compute(gp.self, e, d.sim, gp.gripper, gp.object)
               ELSE IF d.ret = 1
               THEN CPP_move_compute(gp.self, e, d.sim, gp.object, gp.goal)
               ELSE IF d.ret = 2
               THEN CPP_place_compute(gp.self, e, d.sim, gp.object, gp.goal)
               ELSE DecisionError(gp.self, e)}})
      : gp \in {CPP_get_positions(d.self, observation, rot)}})
      : d \in {CPP_decide(s, p, observation, rot)}})

(***************************************************************************)
(* ConsequentialPickAndPlace: specification                                *)
(***************************************************************************)
\* observations: goal, object, gripper
CPPObservations ==
    {<<0, 0, 0, 300, 0, 0, 250, 0, 0>>,
     <<0, 0, 0, 200, 0, 100, 200, 0, 130>>,
     <<0, 0, 0, 0, 0, 30, 0, 0, 0>>}

\* what a call leaves behind; gripped: whether the call created the grip
CPP_CallOf(observation, rot, r) ==
    LET c == CallOf(observation, rot, r)
    IN  [f \in DOMAIN c \cup {"gripped"} |->
            IF f = "gripped" THEN self.grip = None /\ r.self.grip # None
            ELSE c[f]]

InitCPP ==
    /\ cls = "ConsequentialPickAndPlace"
    /\ self = CPP_init
    /\ env = EnvInit
    /\ sim = SimInit
    /\ call = CallInit
    /\ frame = FrameIdle

CPPCompute ==
    /\ cls = "ConsequentialPickAndPlace"
    /\ call.n < MaxCalls
    /\ \E observation \in CPPObservations, rot \in Orientations, hit \in BOOLEAN :
          \E r \in {CPP_compute(self, EnvStep(env), sim, observation, rot, hit)} :
              /\ self' = r.self
              /\ env' = r.env
              /\ sim' = r.sim
              /\ call' = CPP_CallOf(observation, rot, r)
              /\ UNCHANGED <<cls, frame>>

CPPReset ==
    /\ cls = "ConsequentialPickAndPlace"
    /\ call.op = "compute"
    /\ self' = CPP_reset(self)
    /\ env' = EnvReset(env)
    /\ call' = [CallInit EXCEPT !.op = "reset", !.n = call.n]
    /\ UNCHANGED <<cls, sim, frame>>

NextCPP == CPPCompute \/ CPPReset

SpecCPP == InitCPP /\ [][NextCPP]_vars

(***************************************************************************)
(* ConsequentialPickAndPlace: properties                                   *)
(***************************************************************************)
\* the positions a call's owner measures between, and their distance
CPP_goal(c) == Slice(c.obs, 0, 3)
CPP_object(c) == Slice(c.obs, 3, 6)
CPP_gripper(c) == get_accurate_gripper_position(Slice(c.obs, 6, 9), c.rot)
CPP_planar(c) == calc_distance(XY(CPP_object(c)), XY(CPP_goal(c)))

CPP_phase_dist(c, owner) ==
    IF owner = 0 THEN calc_distance(CPP_gripper(c), CPP_object(c))
    ELSE IF owner = 1 THEN CPP_planar(c)
    ELSE calc_distance(CPP_object(c), CPP_goal(c))

CPP_baseline(s, owner) ==
    IF owner = 0 THEN s.last_find_dist
    ELSE IF owner = 1 THEN s.last_move_dist
    ELSE s.last_place_dist

\* C1 (as stated): the owners of the compute calls between two resets never
\* decrease: each compute call's owner is at least the owner of the compute
\* call before it.
C1_Original ==
    [][(/\ cls = "ConsequentialPickAndPlace"
        /\ call.op = "compute"
        /\ call'.op = "compute")
       => self'.last_owner >= self.last_owner]_vars

\* C2 (as stated, for ConsequentialPickAndPlace): a compute call whose owner
\* differs from the owner of the previous compute call of the episode
\* (last_owner is None after construction and reset) leaves the entered
\* phase's baseline at the call's distance and returns exactly 0.
C2_Original ==
    [][(/\ cls = "ConsequentialPickAndPlace"
        /\ call'.op = "compute"
        /\ self'.last_owner # self.last_owner)
       => /\ call'.ret = 0
          /\ CPP_baseline(self', self'.last_owner)
                 = CPP_phase_dist(call', self'.last_owner)]_vars

\* the step is the compute call on which the gripper first comes within 0.1
\* of the object, the object not being above the goal
CPP_GripStep ==
    /\ cls = "ConsequentialPickAndPlace"
    /\ call'.op = "compute"
    /\ call'.gripped
    /\ ~CPP_object_above_goal(CPP_object(call'), CPP_goal(call'))

\* the step is the compute call that follows such a call without a reset
CPP_AfterGripStep ==
    /\ cls = "ConsequentialPickAndPlace"
    /\ call.op = "compute"
    /\ call.gripped
    /\ ~CPP_object_above_goal(CPP_object(call), CPP_goal(call))
    /\ call'.op = "compute"

CPP_MoveAtZero ==
    /\ self'.last_owner = 1
    /\ call'.ret = 0
    /\ self'.last_move_dist = CPP_planar(call')

MaxVecCalls == 2

\* env.robot.end_effector_index: the links are 0..EndEffectorIndex
EndEffectorIndex == 10

\* len(env.task_objects_names), len(env.distractors), robot.observed_links_num
NumGoals == 1
NumDistractors == 1
ObservedLinksNum == 2

\* reward = -5
ContactReward == -5

\* if self.touches > 20
CrushTouches == 20

\* minimum = 1000
MinimumInit == 1000000

\* calc_distance(goal_position, gripper) <= 0.11
GoalReachedDist == 110

Crushed == "Arm crushed the distractor"

NoneList(n) == [i \in 1..n |-> None]

VecSub(p, q) == [i \in 1..Len(p) |-> p[i] - q[i]]

Dot(p, q) == p[1] * q[1] + p[2] * q[2] + p[3] * q[3]

GCD3(v) == GCD(GCD(Abs(v[1]), Abs(v[2])), Abs(v[3]))

\* the same vector, in lowest terms
VReduce(w) ==
    LET g == GCD(GCD3(w.v), w.den)
    IN  [v |-> [i \in 1..3 |-> w.v[i] \div g], den |-> w.den \div g]

\* Vector(a, b) of positions in millimetres: the direction b - a
Vector(a, b) == VReduce([v |-> VecSub(b, a), den |-> 1000])

\* Vector.add
VAdd(a, b) ==
    VReduce([v |-> [i \in 1..3 |-> a.v[i] * b.den + b.v[i] * a.den],
             den |-> a.den * b.den])

\* Vector.multiply, by the fraction q
VMultiply(w, q) ==
    VReduce([v |-> [i \in 1..3 |-> w.v[i] * q.num], den |-> w.den * q.den])

VIsZero(w) == w.v = <<0, 0, 0>>

\* Vector.set_len of a vector whose norm is norm millimetres (not 0), to the
\* length len: the vector times len / norm
VSetLen(w, norm, len) == VMultiply(w, Rat(len.num * 1000, len.den * norm))

\* the whole vector, in no unit, that points the way of w
Primitive(w) ==
    LET g == GCD3(w.v)
    IN  [i \in 1..3 |-> w.v[i] \div g]

Sign(x) == IF x > 0 THEN 1 ELSE IF x < 0 THEN -1 ELSE 0

CosZero == [sign |-> 0, sq |-> RatInt(0)]

\* a variant that leaves the real vector at its own length
Cosine_unnormalised(optimal, real) ==
    LET o == Primitive(optimal)
        d == Dot(o, real.v)
    IN  [sign |-> Sign(d), sq |-> Rat(d * d, Dot(o, o))]

\* np.dot(set_vector_len(optimal, 1), set_vector_len(real, 1)) of two
\* vectors that are not 0
Cosine(optimal, real) ==
    LET o == Primitive(optimal)
        r == Primitive(real)
        d == Dot(o, r)
    IN  [sign |-> Sign(d), sq |-> Rat(d * d, Dot(o, o) * Dot(r, r))]

VReward(base, cos) == [base |-> base, cos |-> cos]

Vec_init ==
    [rewards_history |-> <<>>,
     prev_goals_positions |-> NoneList(NumGoals),
     prev_distractors_positions |-> NoneList(NumDistractors),
     prev_links_positions |-> NoneList(11),
     prev_gipper_position |-> <<None, None, None>>,
     touches |-> 0,
     episode_number |-> None]

\* the environment of a VectorReward: the running reward of the episode and
\* the distractor's flag besides
VecEnvInit ==
    [f \in DOMAIN EnvInit \cup {"episode_reward", "distractor_stopped"} |->
        IF f = "episode_reward" THEN 0
        ELSE IF f = "distractor_stopped" THEN FALSE
        ELSE EnvInit[f]]

Vec_reset(s, e) ==
    [self |-> [s EXCEPT !.prev_goals_positions = NoneList(NumGoals),
                        !.prev_distractors_positions = NoneList(NumDistractors),
                        !.prev_links_positions = NoneList(EndEffectorIndex + 1),
                        !.prev_gipper_position = <<None, None, None>>,
                        !.touches = 0],
     env |-> [e EXCEPT !.distractor_stopped = FALSE]]

\* n consecutive triples of the observation, from index j (0-based)
Triples(observation, j, n) ==
    [i \in 1..n |-> Slice(observation, j + 3 * (i - 1), j + 3 * i)]

Vec_fill_objects_lists(observation) ==
    [goals |-> Triples(observation, 0, NumGoals),
     distractors |-> Triples(observation, 3 * NumGoals, NumDistractors),
     arm |-> Triples(observation, 3 * (NumGoals + NumDistractors), 1),
     links |-> Triples(observation, 3 * (NumGoals + NumDistractors + 1),
                       ObservedLinksNum)]

\* a variant that ends the episode one contact sooner
CrushReached_sooner(touches) == touches >= CrushTouches

CrushReached(touches) == touches > CrushTouches

\* the loop over contact_points, from link x on; contacts: the links for
\* which getContactPoints answers with a contact; returned: whether the
\* loop left compute
RECURSIVE Vec_contact_loop(_, _, _, _, _)
Vec_contact_loop(s, e, reward, x, contacts) ==
    IF x > EndEffectorIndex
    THEN [self |-> s, env |-> e, reward |-> reward, returned |-> FALSE]
    ELSE IF x \notin contacts
    THEN Vec_contact_loop(s, e, reward, x + 1, contacts)
    ELSE LET s1 == [s EXCEPT !.touches = @ + 1,
                             !.rewards_history =
                                 Append(@, VReward(ContactReward, CosZero))]
         IN  IF CrushReached(s1.touches)
             THEN [self |-> [s1 EXCEPT !.episode_number = 1024],
                   env |-> [e EXCEPT !.episode_reward = IF @ > 0 THEN -1 ELSE @,
                                     !.episode_info = Crushed,
                                     !.episode_over = TRUE,
                                     !.episode_failed = TRUE],
                   reward |-> ContactReward, returned |-> TRUE]
             ELSE Vec_contact_loop(s1, e, ContactReward, x + 1, contacts)

\* the loop over closest_distractor_points; a point is [dist, pos]: its
\* point[8] and point[6]; the result is NonePos when no point was taken
RECURSIVE Vec_closest(_, _, _)
Vec_closest(points, minimum, closest_distractor_point) ==
    IF points = <<>> THEN closest_distractor_point
    ELSE IF Head(points).dist < minimum
    THEN Vec_closest(Tail(points), Head(points).dist, Head(points).pos)
    ELSE Vec_closest(Tail(points), minimum, closest_distractor_point)

\* (1 / pow(d, 1/2)) - 2 for d millimetres (not 0), the root to 0.01
Vec_push_amplifier(d) ==
    LET root == ISqrt(10 * d)
        amplifier == Rat(100 - 2 * root, root)
    IN  IF amplifier.num < 0 THEN RatInt(0) ELSE amplifier

\* the position the call measures from: 'if not self.prev_gipper_position[0]:
\* self.prev_gipper_position = gripper'; not x is True for None and for 0
Vec_prev(s, gripper) ==
    IF s.prev_gipper_position[1] = None \/ s.prev_gipper_position[1] = 0
    THEN gripper
    ELSE s.prev_gipper_position

\* lines 729-805 of compute; points: the answer of getClosestPoints; hit:
\* whether task.check_distractor_distance_threshold ends the episode
Vec_alignment(s, e, reward, lists, points, hit) ==
    LET gripper == lists.links[Len(lists.links)]
        goal_position == lists.goals[1]
        closest_distractor_point == Vec_closest(points, MinimumInit, NonePos)
        prev == Vec_prev(s, gripper)
        s1 == [s EXCEPT !.prev_gipper_position = prev]
        pull_norm == calc_distance(prev, goal_position)
        push_norm == calc_distance(closest_distractor_point, prev)
        ideal_vector == Vector(prev, goal_position)
        push_vector == VSetLen(Vector(closest_distractor_point, prev), push_norm,
                               Vec_push_amplifier(push_norm))
        pull_vector == VSetLen(Vector(prev, goal_position), pull_norm,
                               Rat(pull_norm, 1000))
        force_vector == VAdd(push_vector, pull_vector)
        optimal_vector == VMultiply(VAdd(force_vector, ideal_vector), Rat(5, 1000))
        real_vector == Vector(prev, gripper)
        cos == IF VIsZero(real_vector) THEN CosZero
               ELSE Cosine(optimal_vector, real_vector)
        value == VReward(reward, cos)
        e1 == task_check(e, hit)
        e2 == IF calc_distance(goal_position, gripper) <= GoalReachedDist
              THEN [e1 EXCEPT !.episode_over = TRUE,
                              !.episode_info =
                                  IF e1.episode_steps = 1
                                  THEN "Task completed in initial configuration"
                                  ELSE "Task completed successfully"]
              ELSE e1
    IN  IF closest_distractor_point = NonePos
        THEN Raised(s1, e, "UnboundLocalError")
        ELSE IF push_norm = 0 \/ pull_norm = 0
        THEN Raised(s1, e, "ZeroDivisionError")
        ELSE IF ~VIsZero(real_vector) /\ VIsZero(optimal_vector)
        THEN Raised(s1, e, "ZeroDivisionError")
        ELSE Returned([s1 EXCEPT !.prev_gipper_position = gripper,
                                 !.rewards_history = Append(@, value)],
                      e2, value)

Vec_compute(s, e, observation, contacts, points, hit) ==
    LET lists == Vec_fill_objects_lists(observation)
        loop == Vec_contact_loop(s, e, 0, 0, contacts)
    IN  IF loop.returned
        THEN Returned(loop.self, loop.env, VReward(loop.reward, CosZero))
        ELSE Vec_alignment(loop.self, loop.env, loop.reward, lists, points, hit)

(***************************************************************************)
(* VectorReward: specification                                             *)
(***************************************************************************)
\* positions of the gripper, the last observed link
VecGrippers == {<<100, 0, 0>>, <<400, 0, 0>>, <<0, 400, 0>>, <<800, 100, 0>>}

\* observations: goal, distractor, arm, two links
VecObs(gripper) == <<800, 0, 0, 100, 40, 0, 0, 0, 0, 50, 0, 0>> \o gripper

\* answers of getClosestPoints
ClosestAnswers ==
    {<<>>,
     <<[dist |-> 40, pos |-> <<100, 40, 0>>]>>,
     <<[dist |-> 500, pos |-> <<100, 1000, 0>>],
       [dist |-> 160, pos |-> <<400, 0, 160>>]>>}

\* the links getContactPoints finds in contact
ContactSets ==
    {{}, {l : l \in 0..EndEffectorIndex}, {l : l \in 1..EndEffectorIndex}}

\* what the simulation, the task and the environment bring to a call:
\* episode_reward is the environment's running reward of the episode
VecInputs ==
    {[obs |-> VecObs(g), contacts |-> {}, points |-> a, hit |-> FALSE,
      episode_reward |-> 0] : g \in VecGrippers, a \in ClosestAnswers}
    \cup
    {[obs |-> VecObs(<<400, 0, 0>>), contacts |-> c,
      points |-> <<[dist |-> 40, pos |-> <<100, 40, 0>>]>>, hit |-> h,
      episode_reward |-> er] :
        c \in ContactSets \ {{}}, h \in BOOLEAN, er \in {0, 1}}
    \cup
    {[obs |-> VecObs(<<100, 0, 0>>), contacts |-> {},
      points |-> <<[dist |-> 40, pos |-> <<100, 40, 0>>]>>, hit |-> TRUE,
      episode_reward |-> 0]}

\* what a call leaves behind; contacts, points: the simulation's answers
Vec_CallOf(in, r) ==
    LET c == CallOf(in.obs, <<>>, r)
    IN  [f \in DOMAIN c \cup {"contacts", "points"} |->
            IF f = "contacts" THEN in.contacts
            ELSE IF f = "points" THEN in.points
            ELSE c[f]]

InitVec ==
    /\ cls = "VectorReward"
    /\ self = Vec_init
    /\ env = VecEnvInit
    /\ sim = SimInit
    /\ call = CallInit
    /\ frame = FrameIdle

VecCompute ==
    /\ cls = "VectorReward"
    /\ call.n < MaxVecCalls
    /\ \E in \in VecInputs :
          \E r \in {Vec_compute(self,
                                 [EnvStep(env) EXCEPT
                                      !.episode_reward = in.episode_reward],
                                 in.obs, in.contacts, in.points, in.hit)} :
              /\ self' = r.self
              /\ env' = r.env
              /\ call' = Vec_CallOf(in, r)
              /\ UNCHANGED <<cls, sim, frame>>

VecReset ==
    /\ cls = "VectorReward"
    /\ call.op = "compute"
    /\ LET r == Vec_reset(self, EnvReset(env))
       IN  /\ self' = r.self
           /\ env' = r.env
    /\ call' = [CallInit EXCEPT !.op = "reset", !.n = call.n]
    /\ UNCHANGED <<cls, sim, frame>>

NextVec == VecCompute \/ VecReset

SpecVec == InitVec /\ [][NextVec]_vars

(***************************************************************************)
(* VectorReward: properties                                                *)
(***************************************************************************)
\* C5: a compute call that finds no link in contact leaves touches as it is
\* and does not set the episode_info "Arm crushed the distractor"; one that
\* finds k links in contact adds k to touches while the count stays at 20 or
\* below, and then leaves episode_info other than that; the call in which the
\* count passes 20 stops counting at the 21st contact (at its first contact,
\* once the count is past 20), returns -5 and sets episode_over,
\* episode_failed and the episode_info "Arm crushed the distractor"; and that
\* episode_info is only ever there with touches above 20.
C5_CrushOn21st ==
    /\ [](cls = "VectorReward" /\ env.episode_info = Crushed
            => self.touches > CrushTouches)
    /\ [][(cls = "VectorReward" /\ call'.op = "compute") =>
            LET k == Cardinality(call'.contacts)
            IN  IF k = 0
                THEN /\ self'.touches = self.touches
                     /\ env'.episode_info = Crushed => env.episode_info = Crushed
                ELSE IF self.touches + k <= CrushTouches
                THEN /\ self'.touches = self.touches + k
                     /\ env'.episode_info # Crushed
                ELSE /\ self'.touches =
                            IF self.touches < CrushTouches
                            THEN CrushTouches + 1
                            ELSE self.touches + 1
                     /\ call'.exc = ""
                     /\ call'.ret = VReward(ContactReward, CosZero)
                     /\ env'.episode_over
                     /\ env'.episode_failed
                     /\ env'.episode_info = Crushed]_vars

\* C5: the second call found all eleven links in contact after eleven
\* contacts of the first: the count stopped at 21 and the episode is failed
C5_Witness ==
    /\ cls = "VectorReward"
    /\ call.op = "compute"
    /\ ~call.first
    /\ Cardinality(call.contacts) = EndEffectorIndex + 1
    /\ self.touches = CrushTouches + 1
    /\ self.episode_number = 1024
    /\ call.ret = VReward(ContactReward, CosZero)
    /\ env.episode_over
    /\ env.episode_failed
    /\ env.episode_info = Crushed

\* the value of a reward lies between lo - 1 and lo + 1
CosInUnit(cos) == cos.sign \in {-1, 0, 1} /\ cos.sq.num <= cos.sq.den

\* C6 (as stated): every value compute returns lies in [-1, 1].
C6_Original ==
    (cls = "VectorReward" /\ call.op = "compute" /\ call.exc = "")
        => call.ret.base = 0 /\ CosInUnit(call.ret.cos)

\* C6 (amended): a value compute returns is the cosine of the angle between
\* the optimal and the real vector, in [-1, 1], when no link is in contact
\* with the distractor; when a link is, it is -5 plus that cosine, in
\* [-6, -4], and exactly -5 when the call ends the episode for crushing.
C6_AlignmentBounded ==
    (cls = "VectorReward" /\ call.op = "compute" /\ call.exc = "")
        => /\ CosInUnit(call.ret.cos)
           /\ call.ret.base = IF call.contacts = {} THEN 0 ELSE ContactReward
           /\ (call.contacts # {} /\ env.episode_info = Crushed)
                  => call.ret.cos = CosZero

\* C6: a call without contact returned a cosine strictly between 0 and 1
C6_Witness ==
    /\ cls = "VectorReward"
    /\ call.op = "compute"
    /\ call.exc = ""
    /\ call.contacts = {}
    /\ call.ret.base = 0
    /\ call.ret.cos.sign = 1
    /\ call.ret.cos.sq.num < call.ret.cos.sq.den

(***************************************************************************)
(* set_vector_len (PokeReward, PokeVectorReward, VectorReward)             *)
(*                                                                         *)
(* The function alone: a vector of whole components and a whole length     *)
(* are drawn, and the function is applied to them.  A component of the     *)
(* result is kept exactly, as its sign and its square.                     *)
(***************************************************************************)
\* components of the vectors drawn: -MaxComp..MaxComp
MaxComp == 2

\* the lengths asked for
SvlLens == {-10, -1, 0, 1, 2}

\* count_vector_norm, squared: np.dot(vector, vector)
NormSq(vector) == Dot(vector, vector)

\* the component i of vector * (1 / norm) * len, norm not 0: its sign and
\* its square; the common factor of the components is taken out first
SvlComponent(vector, len, i) ==
    LET w == Primitive([v |-> vector])
    IN  [sign |-> Sign(vector[i]) * Sign(len),
         sq |-> Rat(w[i] * w[i] * len * len, NormSq(w))]

\* a variant that gives back the zero vector for a vector of norm 0
set_vector_len_quiet(vector, len) ==
    IF NormSq(vector) = 0
    THEN [ret |-> [i \in 1..3 |-> CosZero], exc |-> ""]
    ELSE [ret |-> [i \in 1..3 |-> SvlComponent(vector, len, i)],
          exc |-> ""]

\* a variant that multiplies by len only
set_vector_len_unscaled(vector, len) ==
    IF NormSq(vector) = 0
    THEN [ret |-> None, exc |-> "ZeroDivisionError"]
    ELSE [ret |-> [i \in 1..3 |->
                      [sign |-> Sign(vector[i]) * Sign(len),
                       sq |-> RatInt(vector[i] * vector[i] * len * len)]],
          exc |-> ""]

\* multiply_vector(multiply_vector(vector, 1/norm), len); norm is the float
\* math.sqrt gives, and 1/norm raises for the float 0.0
set_vector_len_scaled(vector, len) ==
    IF NormSq(vector) = 0
    THEN [ret |-> None, exc |-> "ZeroDivisionError"]
    ELSE [ret |-> [i \in 1..3 |-> SvlComponent(vector, len, i)],
          exc |-> ""]

set_vector_len_raising(vector, len) == set_vector_len_scaled(vector, len)

set_vector_len(vector, len) == set_vector_len_raising(vector, len)

SvlComps == (-MaxComp)..MaxComp

InitSvl ==
    /\ cls = "set_vector_len"
    /\ self = [rewards_history |-> <<>>]
    /\ env = EnvInit
    /\ sim = SimInit
    /\ call = CallInit
    /\ frame = FrameIdle

\* the call record keeps the vector under obs and the length under n
SvlApply ==
    /\ cls = "set_vector_len"
    /\ call.op = "init"
    /\ \E x \in SvlComps, y \in SvlComps, z \in SvlComps, len \in SvlLens :
          \E r \in {set_vector_len(<<x, y, z>>, len)} :
              call' = [op |-> "set_vector_len", n |-> len, first |-> TRUE,
                       obs |-> <<x, y, z>>, rot |-> <<>>,
                       ret |-> r.ret, exc |-> r.exc]
    /\ UNCHANGED <<cls, self, env, sim, frame>>

\* the next vector is asked for
SvlAgain ==
    /\ cls = "set_vector_len"
    /\ call.op = "set_vector_len"
    /\ call' = CallInit
    /\ UNCHANGED <<cls, self, env, sim, frame>>

NextSvl == SvlApply \/ SvlAgain

SpecSvl == InitSvl /\ [][NextSvl]_vars

\* the square of the norm of a result
SurdNormSq(w) == RatAdd(RatAdd(w[1].sq, w[2].sq), w[3].sq)

\* the result w is the vector v times a factor of the sign of len
SurdParallel(w, v, len) ==
    /\ \A i \in 1..3 : w[i].sign = Sign(v[i]) * Sign(len)
    /\ \A i \in 1..3, j \in 1..3 :
          RatScale(v[j] * v[j], w[i].sq) = RatScale(v[i] * v[i], w[j].sq)

\* C19: for a vector of norm other than 0, set_vector_len(v, L) has the norm
\* |L| and is v times a positive factor when L > 0, a negative one when
\* L < 0; the vector (0, 0, 2) with L = 1 gives (0, 0, 1).
C19_SetLen ==
    (cls = "set_vector_len" /\ call.op = "set_vector_len"
        /\ NormSq(call.obs) # 0)
        => /\ call.exc = ""
           /\ SurdNormSq(call.ret) = RatInt(call.n * call.n)
           /\ SurdParallel(call.ret, call.obs, call.n)
           /\ (call.obs = <<0, 0, 2>> /\ call.n = 1)
                 => call.ret = <<CosZero, CosZero, [sign |-> 1, sq |-> RatInt(1)]>>

\* C19: a vector of norm 3 was set to the length -10: the result points the
\* other way
C19_Witness ==
    /\ cls = "set_vector_len"
    /\ call.op = "set_vector_len"
    /\ call.obs = <<1, -2, 2>>
    /\ call.n = -10
    /\ call.exc = ""
    /\ call.ret[1].sign = -1
    /\ call.ret[2].sign = 1
    /\ SurdNormSq(call.ret) = RatInt(100)

\* C20: for a vector of norm 0, set_vector_len raises ZeroDivisionError and
\* returns no vector, whatever the length asked for.
C20_ZeroNormRaises ==
    (cls = "set_vector_len" /\ call.op = "set_vector_len"
        /\ NormSq(call.obs) = 0)
        => call.exc = "ZeroDivisionError" /\ call.ret = None

\* C20: the zero vector was given with the length 1, and the call raised
C20_Witness ==
    /\ cls = "set_vector_len"
    /\ call.op = "set_vector_len"
    /\ call.obs = <<0, 0, 0>>
    /\ call.n = 1
    /\ call.exc = "ZeroDivisionError"

\* C14 (as stated, for ConsequentialPickAndPlace): a compute call in the PLACE
\* phase (owner 2) that follows a compute call in the PLACE phase, and whose
\* object is less than 0.05 from the goal, sets env.episode_over with the
\* info "Object was placed to desired position" and does not set
\* env.episode_failed.
C14_Original ==
    [][(/\ cls = "ConsequentialPickAndPlace"
        /\ call.op = "compute"
        /\ self.last_owner = 2
        /\ call'.op = "compute"
        /\ call'.exc = ""
        /\ self'.last_owner = 2
        /\ calc_distance(CPP_object(call'), CPP_goal(call')) < PlaceDoneDist)
       => /\ env'.episode_over
          /\ env'.episode_info = "Object was placed to desired position"
          /\ env'.episode_failed = env.episode_failed]_vars

(***************************************************************************)
(* PokeReachReward                                                         *)
(*                                                                         *)
(* Lengths of the poke strategies are whole multiples of 0.00001 m, so     *)
(* that rounding to four decimals is not the identity.  An observation is  *)
(* given as a Python list, whose slices are copies, or as an array, whose  *)
(* slices are views of it.                                                 *)
(***************************************************************************)
\* compute calls drawn per run of a poke strategy
MaxPokeCalls == 3

\* is_poker_moving: "if self.env.episode_steps > 25"
MovedAfterSteps == 25

\* round(x, 4) of a length: to the nearest 0.0001 m, a tie to the even one
Round4(x) ==
    LET q == x \div 10
        r == x % 10
    IN  IF r < 5 THEN 10 * q
        ELSE IF r > 5 THEN 10 * (q + 1)
        ELSE IF q % 2 = 0 THEN 10 * q
        ELSE 10 * (q + 1)

\* the direction vector [0, 0, 0.1] as rotated, in 0.00001 m
PokeDirection(rot) == [i \in 1..3 |-> 100 * rot[i]]

PRR_init ==
    [rewards_history |-> <<>>,
     threshold |-> 10000,
     last_distance |-> None,
     last_gripper_distance |-> None,
     moved |-> FALSE,
     prev_poker_position |-> NoneList(3)]

PRR_reset(s) ==
    [s EXCEPT !.last_distance = None,
              !.last_gripper_distance = None,
              !.moved = FALSE,
              !.prev_poker_position = NoneList(3)]

PRR_get_accurate_gripper_position(gripper_position, rot) ==
    VecAdd(PokeDirection(rot), gripper_position)

PRR_initialize_positions(s, poker_position, distance, gripper_distance) ==
    LET s1 == IF s.last_distance = None
              THEN [s EXCEPT !.last_distance = distance] ELSE s
        s2 == IF s1.last_gripper_distance = None
              THEN [s1 EXCEPT !.last_gripper_distance = gripper_distance] ELSE s1
    IN  IF s2.prev_poker_position[1] = None
        THEN [s2 EXCEPT !.prev_poker_position = poker_position] ELSE s2

\* the rounding writes into poker_position, which is observation[3:6]: a
\* copy for a list, a view of the observation for an array
PRR_rounded_in_place(observation, array) ==
    [i \in 1..Len(observation) |->
        IF array /\ i \in 4..6 THEN Round4(observation[i]) ELSE observation[i]]

\* a variant that rounds a copy of the slice
PRR_rounded_copy(observation, array) == observation

PRR_observation_after(observation, array) ==
    PRR_rounded_in_place(observation, array)

\* init(observation)
PRR_compute_init(s, observation, rot, array) ==
    Only({Only({
        [self |-> PRR_initialize_positions(s, poker_position, distance,
                                           gripper_distance),
         observation |-> PRR_observation_after(observation, array),
         poker_position |-> poker_position,
         distance |-> distance,
         gripper_distance |-> gripper_distance]
      : distance \in {calc_distance(goal_position, poker_position)},
        gripper_distance \in {calc_distance(poker_position, gripper_position)}})
      : goal_position \in {Slice(observation, 0, 3)},
        poker_position \in {[i \in 1..3 |-> Round4(Slice(observation, 3, 6)[i])]},
        gripper_position \in
            {PRR_get_accurate_gripper_position(Slice(observation, 6, 9), rot)}})

\* a variant that sets the latch at any step
PRR_is_poker_moving_any_step(s, e, poker) ==
    IF s.prev_poker_position[1] = poker[1] /\ s.prev_poker_position[2] = poker[2]
    THEN [self |-> s, ret |-> FALSE]
    ELSE [self |-> [s EXCEPT !.moved = TRUE], ret |-> TRUE]

PRR_is_poker_moving(s, e, poker) ==
    IF s.prev_poker_position[1] = poker[1] /\ s.prev_poker_position[2] = poker[2]
    THEN [self |-> s, ret |-> FALSE]
    ELSE IF e.episode_steps > MovedAfterSteps
    THEN [self |-> [s EXCEPT !.moved = TRUE], ret |-> TRUE]
    ELSE [self |-> s, ret |-> TRUE]

PRR_check_motion(s, e, poker) ==
    Only({Only({
        IF ~m1.ret /\ m1.self.moved
        THEN Returned(m1.self,
                      [e EXCEPT !.episode_over = TRUE, !.episode_failed = TRUE,
                                !.episode_info = "too weak poke"],
                      TRUE)
        ELSE IF m2.ret THEN Returned(m2.self, e, FALSE)
        ELSE Returned(m2.self, e, TRUE)
      : m2 \in {PRR_is_poker_moving(m1.self, e, poker)}})
      : m1 \in {PRR_is_poker_moving(s, e, poker)}})

PRR_count_reward(s, e, poker_position, distance, gripper_distance) ==
    Only({
        LET r1 == IF c.ret THEN c.self.last_gripper_distance - gripper_distance
                  ELSE 0
        IN  Returned(c.self, c.env, r1 + 100 * (c.self.last_distance - distance))
      : c \in {PRR_check_motion(s, e, poker_position)}})

PRR_update_positions(s, poker_position, distance, gripper_distance) ==
    [s EXCEPT !.last_distance = distance,
              !.last_gripper_distance = gripper_distance,
              !.prev_poker_position = poker_position]

\* a variant that marks the episode failed and leaves it running
PRR_check_strength_threshold_running(e, strong) ==
    IF strong
    THEN [e EXCEPT !.episode_failed = TRUE, !.episode_info = "too strong poke"]
    ELSE e

\* strong: the answer of task.check_object_moved(task_objects[1], 2)
PRR_check_strength_threshold(e, strong) ==
    IF strong
    THEN [e EXCEPT !.episode_over = TRUE, !.episode_failed = TRUE,
                   !.episode_info = "too strong poke"]
    ELSE e

\* hit: whether task.check_poke_threshold ends the episode
PRR_finish(s, e, poker_position, distance, gripper_distance, reward, strong, hit) ==
    LET s1 == PRR_update_positions(s, poker_position, distance, gripper_distance)
        e1 == PRR_check_strength_threshold(e, strong)
    IN  Returned([s1 EXCEPT !.rewards_history = Append(@, reward)],
                 task_check(e1, hit), reward)

\* in: the observation, whether it is an array, and the collaborators'
\* answers; the result carries the caller's observation after the call
PRR_compute(s, e, in) ==
    Only({Only({Only({
        [self |-> f.self, env |-> f.env, ret |-> f.ret, exc |-> "",
         observation |-> i.observation]
      : f \in {PRR_finish(c.self, c.env, i.poker_position, i.distance,
                          i.gripper_distance, c.ret, in.strong, in.hit)}})
      : c \in {PRR_count_reward(i.self, e, i.poker_position, i.distance,
                                i.gripper_distance)}})
      : i \in {PRR_compute_init(s, in.obs, in.rot, in.array)}})

\* an input of a poke strategy
PokeInput(goal, poker, gripper, rot, array, strong, hit) ==
    [obs |-> goal \o poker \o gripper, rot |-> rot, array |-> array,
     strong |-> strong, hit |-> hit]

PokeRot == <<0, 0, 100>>

\* the observation of a poker at rest 0.2 m from the goal
PRRRest ==
    PokeInput(<<0, 0, 0>>, <<20000, 0, 0>>, <<22000, 0, 0>>, PokeRot,
              FALSE, FALSE, FALSE)

PRRInputs ==
    {PRRRest,
     PokeInput(<<0, 0, 0>>, <<19000, 0, 0>>, <<21000, 0, 0>>, PokeRot,
               FALSE, FALSE, FALSE),
     PokeInput(<<0, 0, 0>>, <<20000, 0, 500>>, <<22000, 0, 0>>, PokeRot,
               FALSE, FALSE, FALSE),
     PokeInput(<<0, 0, 0>>, <<20003, 0, 0>>, <<21000, 0, 0>>, PokeRot,
               TRUE, FALSE, FALSE),
     PokeInput(<<0, 0, 0>>, <<20003, 0, 0>>, <<21000, 0, 0>>, PokeRot,
               FALSE, FALSE, FALSE),
     PokeInput(<<0, 0, 0>>, <<20000, 0, 0>>, <<22000, 0, 0>>, PokeRot,
               TRUE, TRUE, FALSE),
     PokeInput(<<0, 0, 0>>, <<19000, 0, 0>>, <<21000, 0, 0>>, <<100, 0, 0>>,
               TRUE, FALSE, TRUE),
     PokeInput(<<0, 0, 0>>, <<19000, 1000, 0>>, <<21000, 0, 0>>, PokeRot,
               FALSE, FALSE, FALSE)}

\* what a call of a poke strategy leaves behind; after: the caller's
\* observation when the call has returned; strong: the strength check's answer
Poke_CallOf(in, r) ==
    LET c == CallOf(in.obs, in.rot, r)
    IN  [f \in DOMAIN c \cup {"array", "after", "strong"} |->
            IF f = "array" THEN in.array
            ELSE IF f = "after" THEN r.observation
            ELSE IF f = "strong" THEN in.strong
            ELSE c[f]]

\* the record of a call in which the poker rested, the calls before the
\* drawn ones not being counted
PokeRestCall(in) ==
    [op |-> "compute", n |-> 0, first |-> FALSE, obs |-> in.obs,
     rot |-> in.rot, ret |-> 0, exc |-> "", array |-> in.array,
     after |-> in.obs, strong |-> in.strong]

\* the object and the environment after k steps of an episode in which the
\* poker rests
RECURSIVE PRR_after(_)
PRR_after(k) ==
    IF k = 0 THEN [self |-> PRR_init, env |-> EnvInit]
    ELSE Only({[self |-> r.self, env |-> r.env] :
                  r \in {PRR_compute(p.self, EnvStep(p.env), PRRRest) :
                            p \in {PRR_after(k - 1)}}})

\* a new object, or an object MovedAfterSteps steps into its first episode
InitPRR ==
    /\ cls = "PokeReachReward"
    /\ \E k \in {0, MovedAfterSteps} :
          \E p \in {PRR_after(k)} :
              /\ self = p.self
              /\ env = p.env
              /\ call = IF k = 0 THEN CallInit ELSE PokeRestCall(PRRRest)
    /\ sim = SimInit
    /\ frame = FrameIdle

PRRCompute ==
    /\ cls = "PokeReachReward"
    /\ call.n < MaxPokeCalls
    /\ \E in \in PRRInputs :
          \E r \in {PRR_compute(self, EnvStep(env), in)} :
              /\ self' = r.self
              /\ env' = r.env
              /\ call' = Poke_CallOf(in, r)
              /\ UNCHANGED <<cls, sim, frame>>

PRRReset ==
    /\ cls = "PokeReachReward"
    /\ call.op = "compute"
    /\ self' = PRR_reset(self)
    /\ env' = EnvReset(env)
    /\ call' = [CallInit EXCEPT !.op = "reset", !.n = call.n]
    /\ UNCHANGED <<cls, sim, frame>>

NextPRR == PRRCompute \/ PRRReset

SpecPRR == InitPRR /\ [][NextPRR]_vars

(***************************************************************************)
(* PokeReachReward: properties                                             *)
(***************************************************************************)
\* the poker position a compute call works with
PRR_poker(c) == [i \in 1..3 |-> Round4(Slice(c.obs, 3, 6)[i])]

\* C15: in PokeReachReward, moved goes from False to True only in a compute
\* call at a step after the 25th in which the poker's position differs from
\* the previous call's, and from True to False only in reset; a compute call
\* made while moved is True, with the poker where the previous call had it,
\* sets env.episode_over and env.episode_failed, with the info "too weak
\* poke" unless the strength check of the same call replaces it; a compute
\* call made while moved is False does not give that info.
C15_MovedLatch ==
    [][cls = "PokeReachReward" =>
        /\ (~self.moved /\ self'.moved)
              => /\ call'.op = "compute"
                 /\ env'.episode_steps > MovedAfterSteps
                 /\ self.prev_poker_position # NoneList(3)
                 /\ PRR_poker(call') # self.prev_poker_position
        /\ (self.moved /\ ~self'.moved) => call'.op = "reset"
        /\ (self.moved /\ call'.op = "compute"
               /\ PRR_poker(call')[1] = self.prev_poker_position[1]
               /\ PRR_poker(call')[2] = self.prev_poker_position[2])
              => /\ env'.episode_over
                 /\ env'.episode_failed
                 /\ env'.episode_info
                       = (IF call'.strong THEN "too strong poke"
                          ELSE "too weak poke")
        /\ (~self.moved /\ call'.op = "compute")
              => env'.episode_info # "too weak poke"]_vars

\* C15: the poker moved at step 26 and rested at step 27: the episode is
\* over for a poke that was too weak
C15_Witness ==
    /\ cls = "PokeReachReward"
    /\ call.op = "compute"
    /\ self.moved
    /\ env.episode_steps = MovedAfterSteps + 2
    /\ env.episode_over
    /\ env.episode_failed
    /\ env.episode_info = "too weak poke"

\* C18 (as stated, for PokeReachReward): after a compute call the caller's
\* observation is element for element what it was before the call, also when
\* it is an array.
C18_Original ==
    (cls = "PokeReachReward" /\ call.op = "compute") => call.after = call.obs

(***************************************************************************)
(* PokeReward.compute                                                      *)
(*                                                                         *)
(* Lengths are whole multiples of 0.00001 m and square roots are taken to  *)
(* the unit below; a reward is an exact fraction of these lengths.         *)
(***************************************************************************)
PR_init ==
    [rewards_history |-> <<>>,
     prev_goal_position |-> NoneList(3),
     prev_poker_position |-> NoneList(3),
     prev_gripper_position |-> NoneList(3),
     threshold |-> 10000,
     last_distance |-> None]

PR_reset(s) ==
    [s EXCEPT !.prev_goal_position = NoneList(3),
              !.prev_poker_position = NoneList(3),
              !.prev_gripper_position = NoneList(3),
              !.last_distance = None]

\* move_to_origin([p, q])
move_to_origin(p, q) == VecSub(q, p)

\* count_vector_norm, to the unit below
count_vector_norm(vector) == ISqrt(NormSq(vector))

\* the direction is added to gripper_position, which is observation[6:9]: a
\* copy for a list, a view of the observation for an array
PR_observation_after(observation, rot, array) ==
    [i \in 1..Len(observation) |->
        IF array /\ i \in 7..9
        THEN observation[i] + PokeDirection(rot)[i - 6]
        ELSE observation[i]]

PR_is_poker_moving(s, poker) ==
    ~(s.prev_poker_position[1] = poker[1] /\ s.prev_poker_position[2] = poker[2])

\* the correction loops of get_distance_from_poke_line, run to their ends
PR_corrected(a, b, c) ==
    LET c1 == IF Loop1Cond(a, b, c) THEN a - b + 1 ELSE c
        c2 == IF Loop2Cond(a, b, c1) THEN b - a + 1 ELSE c1
        b3 == IF Loop3Cond(a, b, c2) THEN c2 - a + 1 ELSE b
    IN  [a |-> a, b |-> b3, c |-> c2]

\* triangle_height: (2 / a) * sqrt(p (p - a) (p - b) (p - c)), the root
\* taken of the two halves of the product
PR_triangle_height(a, b, c) ==
    (ISqrt((a + b + c) * (b + c - a)) * ISqrt((a + c - b) * (a + b - c)))
        \div (2 * a)

\* get_distance_from_poke_line: the episode is over when the poker is within
\* 0.1 of the goal; distanceXY is the square root of the height in metres
PR_get_distance_from_poke_line(s, e, poke_vector, poker_position, goal_position) ==
    LET z == s.prev_gripper_position[3]
        a == count_vector_norm(poke_vector)
        b == calc_distance(XY(s.prev_gripper_position), XY(poker_position))
        c == calc_distance(XY(s.prev_gripper_position), XY(goal_position))
        e1 == IF a < PokeDoneDist
              THEN [e EXCEPT !.episode_info = "Successfull poke",
                             !.episode_over = TRUE]
              ELSE e
        t == PR_corrected(a, b, c)
    IN  IF a = 0 THEN Raised(s, e1, "ZeroDivisionError")
        ELSE LET distanceXY == ISqrt(PR_triangle_height(t.a, t.b, t.c) * 100000)
             IN  Returned(s, e1, ISqrt(z * z + distanceXY * distanceXY))

PR_first_distance(s, distance) == [s EXCEPT !.last_distance = distance]

\* a variant that stores the gripper position on a moving step as well
PR_reward_moving_updates(s, e, goal_position, poker_position, gripper_position, hit) ==
    Only({Only({Only({
        IF align.exc # "" THEN Raised(s3, e, align.exc)
        ELSE IF poker_vector.exc # "" THEN Raised(s3, e, poker_vector.exc)
        ELSE
        Only({
            IF d.exc # "" THEN d
            ELSE
            Only({
                IF PR_is_poker_moving(s4, poker_position)
                THEN Returned([s4 EXCEPT !.prev_poker_position = poker_position,
                                         !.prev_gripper_position = gripper_position,
                                         !.rewards_history = Append(@, RatInt(0))],
                              task_check(d.env, hit), RatInt(0))
                ELSE IF d.ret >= s4.threshold /\ s4.last_distance = 0
                THEN Raised(s4, d.env, "ZeroDivisionError")
                ELSE
                Only({
                    Returned([s4 EXCEPT !.prev_poker_position = poker_position,
                                        !.prev_gripper_position = gripper_position,
                                        !.prev_goal_position = goal_position,
                                        !.last_distance = d.ret,
                                        !.rewards_history = Append(@, reward)],
                             task_check(d.env, hit), reward)
                  : reward \in
                        {IF d.ret < s4.threshold
                         THEN IF speed = 0 THEN RatInt(0)
                              ELSE Rat(Dot(poke_vector, real_vector),
                                       100 * count_vector_norm(poke_vector))
                         ELSE Rat((s4.last_distance - d.ret) * speed,
                                  100 * s4.last_distance)}})
              : s4 \in {IF s3.last_distance = None
                        THEN PR_first_distance(s3, d.ret) ELSE s3},
                speed \in {count_vector_norm(real_vector)}})
          : d \in {PR_get_distance_from_poke_line(s3, e, poke_vector,
                                                  poker_position, goal_position)}})
      : align \in {set_vector_len(<<-poke_vector[1], poke_vector[2], 0>>, 1)},
        poker_vector \in {set_vector_len(poke_vector, -10)},
        real_vector \in {move_to_origin(s3.prev_gripper_position,
                                        gripper_position)}})
      : poke_vector \in {move_to_origin(s3.prev_poker_position, goal_position)}})
      : s3 \in {LET s1 == IF s.prev_poker_position[1] = None
                          THEN [s EXCEPT !.prev_poker_position = poker_position]
                          ELSE s
                    s2 == IF s1.prev_gripper_position[1] = None
                          THEN [s1 EXCEPT !.prev_gripper_position = gripper_position]
                          ELSE s1
                IN  IF s2.prev_goal_position[1] = None
                    THEN [s2 EXCEPT !.prev_goal_position = goal_position]
                    ELSE s2}})

\* the part of compute after the positions are loaded
PR_reward(s, e, goal_position, poker_position, gripper_position, hit) ==
    Only({Only({Only({
        IF align.exc # "" THEN Raised(s3, e, align.exc)
        ELSE IF poker_vector.exc # "" THEN Raised(s3, e, poker_vector.exc)
        ELSE
        Only({
            IF d.exc # "" THEN d
            ELSE
            Only({
                IF PR_is_poker_moving(s4, poker_position)
                THEN Returned([s4 EXCEPT !.prev_poker_position = poker_position,
                                         !.rewards_history = Append(@, RatInt(0))],
                              task_check(d.env, hit), RatInt(0))
                ELSE IF d.ret >= s4.threshold /\ s4.last_distance = 0
                THEN Raised(s4, d.env, "ZeroDivisionError")
                ELSE
                Only({
                    Returned([s4 EXCEPT !.prev_poker_position = poker_position,
                                        !.prev_gripper_position = gripper_position,
                                        !.prev_goal_position = goal_position,
                                        !.last_distance = d.ret,
                                        !.rewards_history = Append(@, reward)],
                             task_check(d.env, hit), reward)
                  : reward \in
                        {IF d.ret < s4.threshold
                         THEN IF speed = 0 THEN RatInt(0)
                              ELSE Rat(Dot(poke_vector, real_vector),
                                       100 * count_vector_norm(poke_vector))
                         ELSE Rat((s4.last_distance - d.ret) * speed,
                                  100 * s4.last_distance)}})
              : s4 \in {IF s3.last_distance = None
                        THEN PR_first_distance(s3, d.ret) ELSE s3},
                speed \in {count_vector_norm(real_vector)}})
          : d \in {PR_get_distance_from_poke_line(s3, e, poke_vector,
                                                  poker_position, goal_position)}})
      : align \in {set_vector_len(<<-poke_vector[1], poke_vector[2], 0>>, 1)},
        poker_vector \in {set_vector_len(poke_vector, -10)},
        real_vector \in {move_to_origin(s3.prev_gripper_position,
                                        gripper_position)}})
      : poke_vector \in {move_to_origin(s3.prev_poker_position, goal_position)}})
      : s3 \in {LET s1 == IF s.prev_poker_position[1] = None
                          THEN [s EXCEPT !.prev_poker_position = poker_position]
                          ELSE s
                    s2 == IF s1.prev_gripper_position[1] = None
                          THEN [s1 EXCEPT !.prev_gripper_position = gripper_position]
                          ELSE s1
                IN  IF s2.prev_goal_position[1] = None
                    THEN [s2 EXCEPT !.prev_goal_position = goal_position]
                    ELSE s2}})

PR_compute(s, e, in) ==
    Only({
        [self |-> r.self, env |-> r.env, ret |-> r.ret, exc |-> r.exc,
         observation |-> PR_observation_after(in.obs, in.rot, in.array)]
      : r \in {PR_reward(s, e, Slice(in.obs, 0, 3), Slice(in.obs, 3, 6),
                         VecAdd(Slice(in.obs, 6, 9), PokeDirection(in.rot)),
                         in.hit)}})

\* the poker 0.12 m from the goal; the gripper (after the direction is added)
\* on the line through them, beside it, and above it
PRInputs ==
    {PokeInput(<<0, 0, 0>>, <<12000, 0, 0>>, <<14000, 0, -10000>>, PokeRot,
               FALSE, FALSE, FALSE),
     PokeInput(<<0, 0, 0>>, <<12000, 0, 0>>, <<13000, 0, -10000>>, PokeRot,
               FALSE, FALSE, FALSE),
     PokeInput(<<0, 0, 0>>, <<12000, 0, 0>>, <<14000, 3000, -10000>>, PokeRot,
               FALSE, FALSE, FALSE),
     PokeInput(<<0, 0, 0>>, <<12000, 0, 0>>, <<14000, 1000, -10000>>, PokeRot,
               TRUE, FALSE, FALSE),
     PokeInput(<<0, 0, 0>>, <<12000, 0, 0>>, <<14000, 0, -8000>>, PokeRot,
               FALSE, FALSE, TRUE),
     PokeInput(<<0, 0, 0>>, <<11000, 0, 0>>, <<13000, 0, -10000>>, PokeRot,
               FALSE, FALSE, FALSE),
     PokeInput(<<0, 0, 0>>, <<9000, 0, 0>>, <<3000, 0, 0>>, <<100, 0, 0>>,
               TRUE, FALSE, FALSE),
     PokeInput(<<0, 0, 0>>, <<0, 0, 5000>>, <<2000, 0, -10000>>, PokeRot,
               FALSE, FALSE, FALSE)}

InitPR ==
    /\ cls = "PokeReward.compute"
    /\ self = PR_init
    /\ env = EnvInit
    /\ sim = SimInit
    /\ call = CallInit
    /\ frame = FrameIdle

PRCompute ==
    /\ cls = "PokeReward.compute"
    /\ call.n < MaxPokeCalls
    /\ \E in \in PRInputs :
          \E r \in {PR_compute(self, EnvStep(env), in)} :
              /\ self' = r.self
              /\ env' = r.env
              /\ call' = Poke_CallOf(in, r)
              /\ UNCHANGED <<cls, sim, frame>>

PRReset ==
    /\ cls = "PokeReward.compute"
    /\ call.op = "compute"
    /\ self' = PR_reset(self)
    /\ env' = EnvReset(env)
    /\ call' = [CallInit EXCEPT !.op = "reset", !.n = call.n]
    /\ UNCHANGED <<cls, sim, frame>>

NextPR == PRCompute \/ PRReset

SpecPR == InitPR /\ [][NextPR]_vars

(***************************************************************************)
(* PokeVectorReward                                                        *)
(*                                                                         *)
(* Positions are in millimetres; a norm is taken to the millimetre below,  *)
(* and a cosine, a length in metres and a reward are exact fractions of    *)
(* these.  Vector(a, b) has the vector b - a and its norm.                 *)
(***************************************************************************)
PV_init ==
    [rewards_history |-> <<>>,
     prev_poker_position |-> NoneList(3),
     prev_gripper_position |-> NoneList(3),
     last_align |-> RatInt(0),
     last_len |-> RatInt(0)]

\* a variant that keeps the last alignment and length
PV_reset_keeps_last(s) ==
    [s EXCEPT !.prev_poker_position = NoneList(3),
              !.prev_gripper_position = NoneList(3)]

PV_reset(s) ==
    [s EXCEPT !.prev_poker_position = NoneList(3),
              !.prev_gripper_position = NoneList(3),
              !.last_align = RatInt(0),
              !.last_len = RatInt(0)]

\* count_vector_norm, to the millimetre below
PV_norm(vector) == ISqrt(NormSq(vector))

\* np.dot(set_vector_len(v, 1), set_vector_len(w, 1)); 1/norm raises for a
\* vector of norm 0
PV_align(v, w) ==
    IF set_vector_len(v, 1).exc # "" THEN [ret |-> None, exc |-> set_vector_len(v, 1).exc]
    ELSE IF set_vector_len(w, 1).exc # "" THEN [ret |-> None, exc |-> set_vector_len(w, 1).exc]
    ELSE [ret |-> Rat(Dot(v, w), PV_norm(v) * PV_norm(w)), exc |-> ""]

RatNeg(q) == [num |-> -q.num, den |-> q.den]

RatSub(p, q) == RatAdd(p, RatNeg(q))

\* p > n / d
RatGt(p, n, d) == p.num * d > n * p.den

\* align_factor = (align - self.last_align) + (self.last_len - len)
PV_align_factor(s, align, len) ==
    RatAdd(RatSub(align, s.last_align), RatSub(s.last_len, len))

PV_is_poker_moving(s, poker) ==
    ~(s.prev_poker_position[1] = poker[1] /\ s.prev_poker_position[2] = poker[2])

\* strong: the answer of task.check_object_moved(task_objects[1], 2); hit:
\* whether task.check_poke_threshold ends the episode
PV_compute(s, e, in) ==
    Only({Only({Only({Only({
        LET failed(x) == [self |-> s2, env |-> e, ret |-> None, exc |-> x,
                          observation |-> in.obs]
        IN  \* the first reward is taken against last_align = 0, last_len = 0
            IF a.exc # "" THEN failed(a.exc)
            ELSE
            Only({
                IF p.exc # "" THEN failed(p.exc)
                ELSE
                Only({
                    [self |-> [s2 EXCEPT
                                  !.prev_poker_position = poker_position,
                                  !.prev_gripper_position = gripper_position,
                                  !.last_align = a.ret,
                                  !.last_len = len,
                                  !.rewards_history = Append(@, reward)],
                     env |-> task_check(PRR_check_strength_threshold(e, in.strong),
                                        in.hit),
                     ret |-> reward, exc |-> "", observation |-> in.obs]
                  : reward \in {IF PV_is_poker_moving(s2, poker_position)
                                THEN RatInt(0)
                                ELSE RatAdd(PV_align_factor(s2, a.ret, len),
                                            p.ret)}})
              : len \in {Rat(PV_norm(aim_vector), 1000)},
                p \in {IF RatGt(a.ret, 95, 100)
                       THEN PV_align(poke_vector, real_vector)
                       ELSE [ret |-> RatInt(0), exc |-> ""]}})
      : a \in {PV_align(poke_vector, aim_vector)}})
      : poke_vector \in {VecSub(goal_position, s2.prev_poker_position)},
        aim_vector \in {VecSub(s2.prev_poker_position, s2.prev_gripper_position)},
        real_vector \in {VecSub(gripper_position, s2.prev_gripper_position)}})
      : s2 \in {LET s1 == IF s.prev_poker_position[1] = None
                          THEN [s EXCEPT !.prev_poker_position = poker_position]
                          ELSE s
                IN  IF s1.prev_gripper_position[1] = None
                    THEN [s1 EXCEPT !.prev_gripper_position = gripper_position]
                    ELSE s1}})
      : goal_position \in {Slice(in.obs, 0, 3)},
        poker_position \in {Slice(in.obs, 3, 6)},
        gripper_position \in {VecAdd(in.rot, Slice(in.obs, 6, 9))}})

\* the poker 0.2 m from the goal; the gripper (after the direction is added)
\* behind it, beside it, and on it
PVInputs ==
    {PokeInput(<<0, 0, 0>>, <<200, 0, 0>>, <<300, 0, -100>>, PokeRot,
               FALSE, FALSE, FALSE),
     PokeInput(<<0, 0, 0>>, <<200, 0, 0>>, <<250, 0, -100>>, PokeRot,
               FALSE, FALSE, FALSE),
     PokeInput(<<0, 0, 0>>, <<200, 0, 0>>, <<200, 100, -100>>, PokeRot,
               FALSE, FALSE, FALSE),
     PokeInput(<<0, 0, 0>>, <<200, 0, 0>>, <<230, 40, -100>>, PokeRot,
               TRUE, FALSE, FALSE),
     PokeInput(<<0, 0, 0>>, <<200, 0, 0>>, <<200, 0, -100>>, PokeRot,
               FALSE, FALSE, FALSE),
     PokeInput(<<0, 0, 0>>, <<150, 0, 0>>, <<250, 0, -100>>, PokeRot,
               FALSE, FALSE, TRUE),
     PokeInput(<<0, 0, 0>>, <<200, 0, 0>>, <<100, 100, 0>>, <<100, 0, 0>>,
               FALSE, TRUE, FALSE),
     PokeInput(<<0, 0, 0>>, <<0, 0, 0>>, <<100, 0, -100>>, PokeRot,
               FALSE, FALSE, FALSE)}

InitPV ==
    /\ cls = "PokeVectorReward"
    /\ self = PV_init
    /\ env = EnvInit
    /\ sim = SimInit
    /\ call = CallInit
    /\ frame = FrameIdle

PVCompute ==
    /\ cls = "PokeVectorReward"
    /\ call.n < MaxPokeCalls
    /\ \E in \in PVInputs :
          \E r \in {PV_compute(self, EnvStep(env), in)} :
              /\ self' = r.self
              /\ env' = r.env
              /\ call' = Poke_CallOf(in, r)
              /\ UNCHANGED <<cls, sim, frame>>

PVReset ==
    /\ cls = "PokeVectorReward"
    /\ call.op = "compute"
    /\ self' = PV_reset(self)
    /\ env' = EnvReset(env)
    /\ call' = [CallInit EXCEPT !.op = "reset", !.n = call.n]
    /\ UNCHANGED <<cls, sim, frame>>

NextPV == PVCompute \/ PVReset

SpecPV == InitPV /\ [][NextPV]_vars

\* C12 (as stated, for PokeVectorReward): the first compute call after the
\* construction or a reset that returns, returns the reward 0.
C12_Original ==
    (cls = "PokeVectorReward" /\ call.op = "compute" /\ call.first
        /\ call.exc = "")
        => call.ret = RatInt(0)

(***************************************************************************)
(* DualPoke                                                                *)
(*                                                                         *)
(* Positions and distances are whole millimetres, which rounding to four   *)
(* or five decimals of a metre leaves as they are; a reward is in          *)
(* thousandths.  Vector(a, b) has the vector b - a; set_len gives it the   *)
(* length asked for.                                                       *)
(***************************************************************************)
AIM == 0
POKE == 1

\* aim_vector.set_len(-0.2), poke_vector.set_len(-0.2)
AimLen == -200

\* is_aimed: "if len < 0.1"; poker_compute: "if self.last_poker_dist > 0.1"
AimedDist == 100

\* poker_compute: "reward = -5"
StrongPokeReward == -5000

DP_init ==
    [rewards_history |-> <<>>,
     prev_poker_position |-> NoneList(3),
     touched |-> FALSE,
     last_aimer_dist |-> 0,
     last_poker_dist |-> 0,
     poker_reward |-> 0,
     aimer_reward |-> 0,
     last_owner |-> None,
     tuched |-> "absent"]

\* a variant that keeps the latch
DP_reset_keeps_touched(s) ==
    [s EXCEPT !.prev_poker_position = NoneList(3),
              !.last_aimer_dist = 0,
              !.last_poker_dist = 0,
              !.poker_reward = 0,
              !.aimer_reward = 0,
              !.last_owner = None]

\* reset leaves tuched ("absent" until aimer_compute writes it) as it is
DP_reset(s) ==
    [s EXCEPT !.prev_poker_position = NoneList(3),
              !.touched = FALSE,
              !.last_aimer_dist = 0,
              !.last_poker_dist = 0,
              !.poker_reward = 0,
              !.aimer_reward = 0,
              !.last_owner = None]

DP_get_positions(s, observation, rot) ==
    LET poker_position == Slice(observation, 3, 6)
    IN  [self |-> IF s.prev_poker_position[1] = None
                  THEN [s EXCEPT !.prev_poker_position = poker_position]
                  ELSE s,
         goal |-> Slice(observation, 0, 3),
         poker |-> poker_position,
         gripper |-> get_accurate_gripper_position(Slice(observation, 6, 9), rot)]

\* Vector(p, q) with set_len(len): (q - p) * len / |q - p|
DP_set_len(p, q, len) ==
    [i \in 1..3 |-> ((q[i] - p[i]) * len) \div calc_distance(p, q)]

DP_get_aim_point(goal_position, poker_position) ==
    VecAdd(poker_position, DP_set_len(poker_position, goal_position, AimLen))

\* a variant that never sets the latch
DP_is_poker_moving_unlatched(s, poker) ==
    [self |-> s, ret |-> s.prev_poker_position # poker]

DP_is_poker_moving(s, poker) ==
    IF s.prev_poker_position = poker
    THEN [self |-> s, ret |-> FALSE]
    ELSE [self |-> [s EXCEPT !.touched = TRUE], ret |-> TRUE]

\* triangle_height: 2/a raises for a = 0, math.sqrt for a negative product;
\* the root is taken of the two halves of the product
DP_triangle_height(a, b, c) ==
    IF a = 0 THEN [ret |-> None, exc |-> "ZeroDivisionError"]
    ELSE IF (a + b + c) * (b + c - a) < 0 \/ (a + c - b) * (a + b - c) < 0
    THEN [ret |-> None, exc |-> "ValueError"]
    ELSE [ret |-> (ISqrt((a + b + c) * (b + c - a))
                      * ISqrt((a + c - b) * (a + b - c))) \div (2 * a),
          exc |-> ""]

DP_distance_of_point_from_abscissa(A, B, point) ==
    Only({Only({
        IF height_a.exc # "" THEN height_a
        ELSE [ret |-> IF c > a THEN c ELSE IF b > a THEN c ELSE height_a.ret,
              exc |-> ""]
      : height_a \in {DP_triangle_height(a, b, c)}})
      : a \in {calc_distance(A, B)}, b \in {calc_distance(A, point)},
        c \in {calc_distance(point, B)}})

DP_is_aimed(goal_position, poker_position, gripper_position) ==
    Only({Only({
        IF len.exc # "" THEN len
        ELSE [ret |-> len.ret < AimedDist, exc |-> ""]
      : len \in {DP_distance_of_point_from_abscissa(
                     VecAdd(poker_position, [i \in 1..3 |-> 3 * v[i]]),
                     poker_position, gripper_position)}})
      : v \in {DP_set_len(poker_position, goal_position, AimLen)}})

\* a variant that looks at the aim only
DP_owner_by_aim(is_aimed, touched) == IF is_aimed THEN POKE ELSE AIM

\* a variant with a third phase, for a poker that is aimed at and touched
DP_owner_third_phase(is_aimed, touched) ==
    IF is_aimed /\ touched THEN POKE + 1
    ELSE IF is_aimed \/ touched THEN POKE
    ELSE AIM

DP_owner(is_aimed, touched) ==
    IF is_aimed \/ touched THEN POKE
    ELSE IF ~is_aimed /\ ~touched THEN AIM
    ELSE None

DP_decide(s, observation, rot) ==
    Only({Only({
        IF is_aimed.exc # ""
        THEN [self |-> gp.self, ret |-> None, exc |-> is_aimed.exc]
        ELSE Only({
                 \* no branch assigned owner: "return owner" fails
                 IF owner = None
                 THEN [self |-> gp.self, ret |-> None,
                       exc |-> "UnboundLocalError"]
                 ELSE [self |-> gp.self, ret |-> owner, exc |-> ""]
               : owner \in {DP_owner(is_aimed.ret, gp.self.touched)}})
      : is_aimed \in {DP_is_aimed(gp.goal, gp.poker, gp.gripper)}})
      : gp \in {DP_get_positions(s, observation, rot)}})

\* a variant that looks for a moved poker from the first step on
DP_aimer_compute_unsettled(s, e, observation, rot) ==
    Only({Only({Only({Only({Only({Only({
        LET s3 == [m.self EXCEPT !.tuched = IF m.ret THEN "True" ELSE "False"]
        IN  Returned([s3 EXCEPT !.prev_poker_position = gp.poker], e, reward)
      : m \in {DP_is_poker_moving(s2, gp.poker)}})
      : s2 \in {[s1 EXCEPT !.aimer_reward = @ + reward,
                           !.last_aimer_dist = aimer_dist]}})
      : reward \in {s1.last_aimer_dist - aimer_dist}})
      : s1 \in {IF gp.self.last_owner # AIM
                THEN [gp.self EXCEPT !.last_aimer_dist = aimer_dist]
                ELSE gp.self}})
      : aimer_dist \in {calc_distance(gp.gripper,
                                      DP_get_aim_point(gp.goal, gp.poker))}})
      : gp \in {DP_get_positions(s, observation, rot)}})

DP_aimer_compute(s, e, observation, rot) ==
    Only({Only({Only({Only({Only({Only({
        LET s3 == IF e.episode_steps > MovedAfterSteps
                  THEN [m.self EXCEPT !.tuched = IF m.ret THEN "True" ELSE "False"]
                  ELSE s2
        IN  Returned([s3 EXCEPT !.prev_poker_position = gp.poker], e, reward)
      : m \in {DP_is_poker_moving(s2, gp.poker)}})
      : s2 \in {[s1 EXCEPT !.aimer_reward = @ + reward,
                           !.last_aimer_dist = aimer_dist]}})
      : reward \in {s1.last_aimer_dist - aimer_dist}})
      : s1 \in {IF gp.self.last_owner # AIM
                THEN [gp.self EXCEPT !.last_aimer_dist = aimer_dist]
                ELSE gp.self}})
      : aimer_dist \in {calc_distance(gp.gripper,
                                      DP_get_aim_point(gp.goal, gp.poker))}})
      : gp \in {DP_get_positions(s, observation, rot)}})

\* strong: the answer of task.check_object_moved(task_objects[0], 1)
DP_poker_compute(s, e, observation, rot, strong) ==
    Only({Only({Only({Only({Only({Only({
        IF s2.touched
        THEN IF ~m.ret
             THEN Returned(m.self,
                           IF s2.last_poker_dist > AimedDist
                           THEN [e1 EXCEPT !.episode_over = TRUE,
                                           !.episode_failed = TRUE,
                                           !.episode_info = "bad poke"]
                           ELSE [e1 EXCEPT !.episode_over = TRUE,
                                           !.episode_info = "good poke"],
                           reward)
             ELSE Returned(m.self, e1, reward)
        ELSE Returned(s2, e1, reward)
      : m \in {DP_is_poker_moving(s2, Slice(observation, 3, 6))}})
      : s2 \in {[s1 EXCEPT !.poker_reward = @ + reward,
                           !.last_poker_dist = poker_dist,
                           !.prev_poker_position = gp.poker]}})
      : reward \in {IF strong THEN StrongPokeReward
                    ELSE 5 * (s1.last_poker_dist - poker_dist)},
        e1 \in {IF strong
                THEN [e EXCEPT !.episode_over = TRUE, !.episode_failed = TRUE,
                               !.episode_info = "too strong poke"]
                ELSE e}})
      : s1 \in {IF gp.self.last_owner # POKE
                THEN [gp.self EXCEPT !.last_poker_dist = poker_dist]
                ELSE gp.self}})
      : poker_dist \in {calc_distance(gp.poker, gp.goal)}})
      : gp \in {DP_get_positions(s, observation, rot)}})

\* the result carries the owner decide returned (None when it raised)
DP_compute(s, e, in) ==
    Only({
        IF d.exc # ""
        THEN [self |-> d.self, env |-> e, ret |-> None, exc |-> d.exc,
              owner |-> None]
        ELSE Only({
                 IF r.exc # ""
                 THEN [self |-> r.self, env |-> r.env, ret |-> None,
                       exc |-> r.exc, owner |-> d.ret]
                 ELSE
                 [self |-> [r.self EXCEPT !.last_owner = d.ret,
                                          !.rewards_history = Append(@, r.ret)],
                  env |-> task_check(r.env, in.hit),
                  ret |-> r.ret, exc |-> "", owner |-> d.ret]
               : r \in {IF d.ret = AIM
                        THEN DP_aimer_compute(d.self, e, in.obs, in.rot)
                        ELSE IF d.ret = POKE
                        THEN DP_poker_compute(d.self, e, in.obs, in.rot,
                                              in.strong)
                        ELSE DecisionError(d.self, e)}})
      : d \in {DP_decide(s, in.obs, in.rot)}})

\* the poker rests 0.3 m from the goal and the gripper is beside the line
DPRest ==
    PokeInput(<<0, 0, 0>>, <<300, 0, 0>>, <<500, 300, -100>>, PokeRot,
              FALSE, FALSE, FALSE)

DPInputs ==
    {DPRest,
     PokeInput(<<0, 0, 0>>, <<300, 0, 0>>, <<500, 200, -100>>, PokeRot,
               FALSE, FALSE, FALSE),
     PokeInput(<<0, 0, 0>>, <<300, 0, 0>>, <<500, 50, -100>>, PokeRot,
               FALSE, FALSE, FALSE),
     PokeInput(<<0, 0, 0>>, <<280, 0, 0>>, <<480, 300, -100>>, PokeRot,
               FALSE, FALSE, FALSE),
     PokeInput(<<0, 0, 0>>, <<250, 0, 0>>, <<450, 0, -100>>, PokeRot,
               FALSE, FALSE, FALSE),
     PokeInput(<<0, 0, 0>>, <<80, 0, 0>>, <<280, 300, -100>>, PokeRot,
               FALSE, FALSE, FALSE),
     PokeInput(<<0, 0, 0>>, <<300, 0, 0>>, <<400, 50, 0>>, <<100, 0, 0>>,
               FALSE, TRUE, FALSE),
     PokeInput(<<0, 0, 0>>, <<80, 0, 0>>, <<280, 300, -100>>, PokeRot,
               FALSE, TRUE, FALSE),
     PokeInput(<<0, 0, 0>>, <<280, 0, 0>>, <<480, 300, -100>>, PokeRot,
               FALSE, FALSE, TRUE)}

\* what a call leaves behind; owner: what decide returned; prev_poker: the
\* prev_poker_position the call found
DP_CallOf(in, r) ==
    LET c == CallOf(in.obs, in.rot, r)
    IN  [f \in DOMAIN c \cup {"owner", "strong", "prev_poker"} |->
            IF f = "owner" THEN r.owner
            ELSE IF f = "strong" THEN in.strong
            ELSE IF f = "prev_poker" THEN self.prev_poker_position
            ELSE c[f]]

\* the object and the environment after k steps of an episode in which the
\* poker rests and the gripper does not aim
RECURSIVE DP_after(_)
DP_after(k) ==
    IF k = 0 THEN [self |-> DP_init, env |-> EnvInit]
    ELSE Only({[self |-> r.self, env |-> r.env] :
                  r \in {DP_compute(p.self, EnvStep(p.env), DPRest) :
                            p \in {DP_after(k - 1)}}})

\* a new object, or an object MovedAfterSteps steps into its first episode
InitDP ==
    /\ cls = "DualPoke"
    /\ \E k \in {0, MovedAfterSteps} :
          \E p \in {DP_after(k)} :
              /\ self = p.self
              /\ env = p.env
              /\ call = IF k = 0 THEN CallInit
                        ELSE [op |-> "compute", n |-> 0, first |-> FALSE,
                              obs |-> DPRest.obs, rot |-> DPRest.rot,
                              ret |-> 0, exc |-> "", owner |-> AIM,
                              strong |-> FALSE,
                              prev_poker |-> Slice(DPRest.obs, 3, 6)]
    /\ sim = SimInit
    /\ frame = FrameIdle

DPCompute ==
    /\ cls = "DualPoke"
    /\ call.n < MaxPokeCalls
    /\ \E in \in DPInputs :
          \E r \in {DP_compute(self, EnvStep(env), in)} :
              /\ self' = r.self
              /\ env' = r.env
              /\ call' = DP_CallOf(in, r)
              /\ UNCHANGED <<cls, sim, frame>>

DPReset ==
    /\ cls = "DualPoke"
    /\ call.op = "compute"
    /\ self' = DP_reset(self)
    /\ env' = EnvReset(env)
    /\ call' = [CallInit EXCEPT !.op = "reset", !.n = call.n]
    /\ UNCHANGED <<cls, sim, frame>>

NextDP == DPCompute \/ DPReset

SpecDP == InitDP /\ [][NextDP]_vars

(***************************************************************************)
(* DualPoke: properties                                                    *)
(***************************************************************************)
\* C13: in DualPoke, touched goes from True to False only in reset, and a
\* compute call made while touched is True has the owner POKE (1) whenever
\* decide returns, whatever the observation; it never has the owner AIM (0).
C13_TouchedLatch ==
    [][cls = "DualPoke" =>
        /\ (self.touched /\ ~self'.touched) => call'.op = "reset"
        /\ (self.touched /\ call'.op = "compute")
              => /\ call'.owner # AIM
                 /\ call'.exc = "" => (call'.owner = POKE
                                          /\ self'.last_owner = POKE)]_vars

\* C13: the poker was touched at step 26, and at step 27 the gripper is far
\* beside the poke line: the owner is POKE all the same
C13_Witness ==
    /\ cls = "DualPoke"
    /\ call.op = "compute"
    /\ self.touched
    /\ env.episode_steps = MovedAfterSteps + 2
    /\ call.obs = DPRest.obs
    /\ call.owner = POKE

(***************************************************************************)
(* PickAndPlace                                                            *)
(*                                                                         *)
(* Lengths in millimetres, as for ConsequentialPickAndPlace.               *)
(***************************************************************************)
FIND == 0
LIFT == 1
MOVE == 2
PLACE == 3

\* object_lifted: "if object[2] < 0.079", in thousandths of a millimetre
\* against a height in millimetres: the heights below 79 mm
FallenHeight == 79

PnP_init ==
    [rewards_history |-> <<>>,
     last_owner |-> None,
     object_before_lift |-> NoneList(3),
     lifted |-> FALSE,
     grip |-> None,
     last_height |-> None,
     last_find_dist |-> None,
     last_lift_dist |-> None,
     last_move_dist |-> None,
     last_place_dist |-> None,
     finder_reward |-> 0,
     lifter_reward |-> 0,
     mover_reward |-> 0,
     placer_reward |-> 0]

PnP_reset(s) == [PnP_init EXCEPT !.rewards_history = s.rewards_history]

PnP_grip_object(s, p) ==
    LET uid == p.created + 1
    IN  [self |-> [s EXCEPT !.grip = uid],
         sim |-> [constraints |-> p.constraints \cup {uid}, created |-> uid]]

PnP_release_object(s, p) ==
    [self |-> [s EXCEPT !.grip = None],
     sim |-> IF s.grip # None
             THEN [p EXCEPT !.constraints = @ \ {s.grip}]
             ELSE p]

PnP_get_positions(s, observation, rot) ==
    LET goal_position == Slice(observation, 0, 3)
        object_position == Slice(observation, 3, 6)
        gripper_position ==
            get_accurate_gripper_position(
                Slice(observation, Len(observation) - 3, Len(observation)), rot)
    IN  [self |-> IF s.object_before_lift[1] = None
                  THEN [s EXCEPT !.object_before_lift = object_position]
                  ELSE s,
         goal |-> goal_position, object |-> object_position,
         gripper |-> gripper_position]

\* a variant that looks at the distance before the handle
PnP_gripper_reached_object_by_distance(s, p, gripper, object) ==
    LET distance == calc_distance(gripper, object)
    IN  IF distance < GripDist
        THEN IF s.grip # None THEN [self |-> s, sim |-> p, ret |-> TRUE]
             ELSE LET g == PnP_grip_object(s, p)
                  IN  [self |-> g.self, sim |-> g.sim, ret |-> TRUE]
        ELSE [self |-> s, sim |-> p, ret |-> FALSE]

PnP_gripper_reached_object(s, p, gripper, object) ==
    LET distance == calc_distance(gripper, object)
    IN  IF s.grip # None THEN [self |-> s, sim |-> p, ret |-> TRUE]
        ELSE IF distance < GripDist
        THEN LET g == PnP_grip_object(s, p)
             IN  [self |-> g.self, sim |-> g.sim, ret |-> TRUE]
        ELSE [self |-> s, sim |-> p, ret |-> FALSE]

PnP_object_lifted(s, object, object_before_lift) ==
    IF object[3] < FallenHeight
    THEN [self |-> [s EXCEPT !.lifted = FALSE, !.object_before_lift = object],
          ret |-> FALSE]
    ELSE [self |-> [s EXCEPT !.lifted = TRUE], ret |-> TRUE]

\* object_above_goal releases the object when it is above the goal
PnP_object_above_goal(s, p, object, goal) ==
    IF calc_distance(XY(goal), XY(object)) < AboveGoalDist
    THEN LET r == PnP_release_object(s, p)
         IN  [self |-> r.self, sim |-> r.sim, ret |-> TRUE]
    ELSE [self |-> s, sim |-> p, ret |-> FALSE]

\* a variant that stays with PLACE once PLACE was the owner
PnP_decide_sticky(s, p, observation, rot) ==
    Only({Only({Only({Only({
        IF above.ret \/ s.last_owner = PLACE
        THEN [self |-> above.self, sim |-> above.sim, ret |-> PLACE,
              reached |-> "no call"]
        ELSE IF reached.ret
        THEN [self |-> reached.self, sim |-> reached.sim, ret |-> MOVE,
              reached |-> "True"]
        ELSE IF lifted.ret
        THEN [self |-> lifted.self, sim |-> reached.sim, ret |-> MOVE,
              reached |-> "False"]
        ELSE [self |-> lifted.self, sim |-> reached.sim, ret |-> FIND,
              reached |-> "False"]
      : lifted \in {PnP_object_lifted(reached.self, gp.object,
                                      reached.self.object_before_lift)}})
      : reached \in {PnP_gripper_reached_object(above.self, above.sim,
                                                gp.gripper, gp.object)}})
      : above \in {PnP_object_above_goal(gp.self, p, gp.object, gp.goal)}})
      : gp \in {PnP_get_positions(s, observation, rot)}})

\* reached: what gripper_reached_object returned ("True", "False"), or
\* "no call" when decide did not call it
PnP_decide(s, p, observation, rot) ==
    Only({Only({Only({Only({
        IF above.ret
        THEN [self |-> above.self, sim |-> above.sim, ret |-> PLACE,
              reached |-> "no call"]
        ELSE IF reached.ret
        THEN [self |-> reached.self, sim |-> reached.sim, ret |-> MOVE,
              reached |-> "True"]
        ELSE IF lifted.ret
        THEN [self |-> lifted.self, sim |-> reached.sim, ret |-> MOVE,
              reached |-> "False"]
        ELSE [self |-> lifted.self, sim |-> reached.sim, ret |-> FIND,
              reached |-> "False"]
      : lifted \in {PnP_object_lifted(reached.self, gp.object,
                                      reached.self.object_before_lift)}})
      : reached \in {PnP_gripper_reached_object(above.self, above.sim,
                                                gp.gripper, gp.object)}})
      : above \in {PnP_object_above_goal(gp.self, p, gp.object, gp.goal)}})
      : gp \in {PnP_get_positions(s, observation, rot)}})

PnP_find_compute(s, e, gripper, object) ==
    LET dist == calc_distance(gripper, object)
        s1 == IF s.last_find_dist = None THEN [s EXCEPT !.last_find_dist = dist]
              ELSE s
        s2 == IF s1.last_owner # FIND THEN [s1 EXCEPT !.last_find_dist = dist]
              ELSE s1
        reward == s2.last_find_dist - dist
    IN  Returned([s2 EXCEPT !.last_find_dist = dist,
                            !.finder_reward = @ + reward],
                 e, reward)

PnP_lift_compute(s, e, object) ==
    LET s1 == IF s.object_before_lift[1] = None
              THEN [s EXCEPT !.object_before_lift = object] ELSE s
        s2 == IF s1.last_owner # LIFT
              THEN [s1 EXCEPT !.object_before_lift = object] ELSE s1
        dist == calc_distance(object, s2.object_before_lift)
        s3 == IF s2.last_lift_dist = None THEN [s2 EXCEPT !.last_lift_dist = dist]
              ELSE s2
        s4 == IF s3.last_owner # LIFT THEN [s3 EXCEPT !.last_lift_dist = dist]
              ELSE s3
        reward == s4.last_lift_dist - dist
    IN  Returned([s4 EXCEPT !.last_lift_dist = dist,
                            !.lifter_reward = @ + reward],
                 e, reward)

\* a variant that books the reward of the move with the placer
PnP_move_compute_misbooked(s, e, object, goal) ==
    LET height == object[3]
        dist == calc_distance(XY(object), XY(goal))
        s1 == IF s.last_move_dist = None
              THEN [s EXCEPT !.last_move_dist = dist, !.last_height = height]
              ELSE s
        s2 == IF s1.last_owner # MOVE
              THEN [s1 EXCEPT !.last_move_dist = dist, !.last_height = height]
              ELSE s1
        reward == (s2.last_move_dist - dist) + Abs(s2.last_height - height)
    IN  Returned([s2 EXCEPT !.last_move_dist = dist,
                            !.last_height = height,
                            !.placer_reward = @ + reward],
                 e, reward)

PnP_move_compute(s, e, object, goal) ==
    LET height == object[3]
        dist == calc_distance(XY(object), XY(goal))
        s1 == IF s.last_move_dist = None
              THEN [s EXCEPT !.last_move_dist = dist, !.last_height = height]
              ELSE s
        s2 == IF s1.last_owner # MOVE
              THEN [s1 EXCEPT !.last_move_dist = dist, !.last_height = height]
              ELSE s1
        reward == (s2.last_move_dist - dist) + Abs(s2.last_height - height)
    IN  Returned([s2 EXCEPT !.last_move_dist = dist,
                            !.last_height = height,
                            !.mover_reward = @ + reward],
                 e, reward)

PnP_placed(s, dist) == s.last_owner = PLACE /\ dist < PlaceDoneDist

PnP_place_compute(s, e, object, goal) ==
    LET dist == calc_distance(object, goal)
        s1 == IF s.last_place_dist = None THEN [s EXCEPT !.last_place_dist = dist]
              ELSE s
        s2 == IF s1.last_owner # PLACE THEN [s1 EXCEPT !.last_place_dist = dist]
              ELSE s1
        reward == s2.last_place_dist - dist
        s3 == [s2 EXCEPT !.last_place_dist = dist]
        e3 == IF PnP_placed(s3, dist)
              THEN [e EXCEPT !.episode_over = TRUE,
                             !.episode_info = "Object was placed to desired position"]
              ELSE e
    IN  Returned([s3 EXCEPT !.placer_reward = @ + reward], e3, reward)

\* hit: whether task.check_pnp_threshold ends the episode
PnP_compute(s, e, p, observation, rot, hit) ==
    Only({Only({Only({
        IF r.exc # ""
        THEN [self |-> r.self, env |-> r.env, sim |-> d.sim, ret |-> None,
              exc |-> r.exc, reached |-> d.reached]
        ELSE
        [self |-> [r.self EXCEPT !.last_owner = d.ret,
                                 !.rewards_history = Append(@, r.ret)],
         env |-> task_check(r.env, hit), sim |-> d.sim, ret |-> r.ret,
         exc |-> "", reached |-> d.reached]
      : r \in {IF d.ret = FIND
               THEN PnP_find_compute(gp.self, e, gp.gripper, gp.object)
               ELSE IF d.ret = LIFT
               THEN PnP_lift_compute(gp.self, e, gp.object)
               ELSE IF d.ret = MOVE
               THEN PnP_move_compute(gp.self, e, gp.object, gp.goal)
               ELSE IF d.ret = PLACE
               THEN PnP_place_compute(gp.self, e, gp.object, gp.goal)
               ELSE DecisionError(gp.self, e)}})
      : gp \in {PnP_get_positions(d.self, observation, rot)}})
      : d \in {PnP_decide(s, p, observation, rot)}})

\* goal, object, gripper: the object on the table away from the goal, the
\* object lifted, the object at the goal, the gripper far from everything
PnPObservations ==
    {<<0, 0, 0, 300, 0, 0, 250, 0, 0>>,
     <<0, 0, 0, 200, 0, 100, 200, 0, 130>>,
     <<0, 0, 0, 0, 0, 30, 0, 0, 0>>,
     <<0, 0, 0, 300, 0, 0, 900, 0, 0>>}

\* what a call leaves behind; reached: what gripper_reached_object returned
PnP_CallOf(observation, rot, r) ==
    LET c == CallOf(observation, rot, r)
    IN  [f \in DOMAIN c \cup {"reached"} |->
            IF f = "reached" THEN r.reached ELSE c[f]]

InitPnP ==
    /\ cls = "PickAndPlace"
    /\ self = PnP_init
    /\ env = EnvInit
    /\ sim = SimInit
    /\ call = CallInit
    /\ frame = FrameIdle

PnPCompute ==
    /\ cls = "PickAndPlace"
    /\ call.n < MaxCalls
    /\ \E observation \in PnPObservations, rot \in Orientations, hit \in BOOLEAN :
          \E r \in {PnP_compute(self, EnvStep(env), sim, observation, rot, hit)} :
              /\ self' = r.self
              /\ env' = r.env
              /\ sim' = r.sim
              /\ call' = PnP_CallOf(observation, rot, r)
              /\ UNCHANGED <<cls, frame>>

PnPReset ==
    /\ cls = "PickAndPlace"
    /\ call.op = "compute"
    /\ self' = PnP_reset(self)
    /\ env' = EnvReset(env)
    /\ call' = [CallInit EXCEPT !.op = "reset", !.n = call.n]
    /\ UNCHANGED <<cls, sim, frame>>

NextPnP == PnPCompute \/ PnPReset

SpecPnP == InitPnP /\ [][NextPnP]_vars

\* the two pick-and-place strategies
InitPick == InitPnP \/ InitCPP

NextPick == NextPnP \/ NextCPP

SpecPick == InitPick /\ [][NextPick]_vars

(***************************************************************************)
(* The pick-and-place strategies: properties                               *)
(***************************************************************************)
\* what gripper_reached_object returned in the call that led to the primed
\* state; ConsequentialPickAndPlace calls it in every decide and leaves FIND
\* exactly when it returns True
PickReached ==
    IF cls = "PickAndPlace" THEN call'.reached
    ELSE IF self'.last_owner >= 1 THEN "True"
    ELSE "False"

InitRewards ==
    \/ InitDist
    \/ InitPRR
    \/ InitPR
    \/ InitPV
    \/ InitVec
    \/ InitDP
    \/ InitPnP
    \/ InitCPP

NextRewards ==
    \/ NextDist
    \/ NextPRR
    \/ NextPR
    \/ NextPV
    \/ NextVec
    \/ NextDP
    \/ NextPnP
    \/ NextCPP

SpecRewards == InitRewards /\ [][NextRewards]_vars

\* the fields as the constructor of the class leaves them
ConstructorOf(c) ==
    CASE c = "DistanceReward" -> DR_init
      [] c = "ComplexDistanceReward" -> CDR_init
      [] c = "PokeReachReward" -> PRR_init
      [] c = "PokeReward.compute" -> PR_init
      [] c = "PokeVectorReward" -> PV_init
      [] c = "VectorReward" -> Vec_init
      [] c = "DualPoke" -> DP_init
      [] c = "PickAndPlace" -> PnP_init
      [] c = "ConsequentialPickAndPlace" -> CPP_init

\* the fields no reset method assigns: rewards_history; the attributes that
\* only compute creates (prev_diff of the distance strategies, episode_number
\* of VectorReward, tuched of DualPoke); and the threshold of the poke
\* strategies, which nothing changes
NotReset ==
    {"rewards_history", "prev_diff", "episode_number", "tuched", "threshold"}

\* C11 (as stated): after reset every field but rewards_history holds the
\* value the constructor gave it, for every strategy class.
C11_Original ==
    [][call'.op = "reset"
        => \A f \in DOMAIN self \ {"rewards_history"} :
              self'[f] = ConstructorOf(cls)[f]]_vars

\* C11, amended: reset gives every field that a reset method assigns the
\* value the constructor gave it, except prev_links_positions of
\* VectorReward, which gets end_effector_index + 1 entries of None where the
\* constructor gave it 11; it leaves rewards_history, and the attributes that
\* only compute creates, as they were.
C11_ResetRestores ==
    [][call'.op = "reset"
        => /\ DOMAIN self' = DOMAIN self
           /\ \A f \in DOMAIN self :
                 IF f \in NotReset THEN self'[f] = self[f]
                 ELSE IF f = "prev_links_positions"
                 THEN self'[f] = NoneList(EndEffectorIndex + 1)
                 ELSE self'[f] = ConstructorOf(cls)[f]]_vars

\* C11: a DualPoke that has touched the poker, decided for POKE and summed
\* rewards is reset: the latch, the owner and the sums are as constructed,
\* the rewards are still there
C11_Witness ==
    /\ cls = "DualPoke"
    /\ call.op = "reset"
    /\ self.tuched = "True"
    /\ ~self.touched
    /\ self.last_owner = None
    /\ self.prev_poker_position = NoneList(3)
    /\ Len(self.rewards_history) > MovedAfterSteps

(***************************************************************************)
(* Two runs of one strategy                                                *)
(*                                                                         *)
(* The first run makes compute calls, is reset, and makes compute calls    *)
(* again; the second run is reset as constructed and is then given the     *)
(* same observations and collaborator answers as the first.  The second    *)
(* run's object, environment and results are kept in frame.  Two runs that *)
(* agree with the second run agree with one another.                       *)
(***************************************************************************)
\* compute calls of the first run before the reset
MaxBefore == 1

\* compute calls of both runs after the reset
MaxAfter == 2

\* the observations and collaborator answers one compute call of a class is
\* drawn from
TwinInputs(c, e) ==
    CASE c = "DistanceReward" ->
            {[obs |-> o, rot |-> PokeRot, moved |-> FALSE, hit |-> h] :
                o \in (IF e.reward_type = "2dvu" THEN DRObservations2dvu
                       ELSE DRObservations),
                h \in {FALSE}}
      [] c = "ComplexDistanceReward" ->
            {[obs |-> o, hit |-> FALSE] : o \in CDRObservations}
      [] c = "PokeReachReward" -> {in \in PRRInputs : ~in.hit /\ ~in.strong}
      [] c = "PokeReward.compute" -> {in \in PRInputs : ~in.hit /\ ~in.array}
      [] c = "PokeVectorReward" -> {in \in PVInputs : ~in.hit /\ ~in.strong}
      [] c = "VectorReward" ->
            {in \in VecInputs : ~in.hit /\ in.episode_reward = 0
                                /\ Len(in.points) <= 1}
      [] c = "DualPoke" -> {in \in DPInputs : ~in.hit /\ ~in.strong}
      [] c = "PickAndPlace" ->
            {[obs |-> o, rot |-> r, hit |-> FALSE] :
                o \in PnPObservations \ {<<0, 0, 0, 300, 0, 0, 900, 0, 0>>},
                r \in Orientations}
      [] c = "ConsequentialPickAndPlace" ->
            {[obs |-> o, rot |-> r, hit |-> FALSE] :
                o \in CPPObservations, r \in Orientations}

\* what a compute call hands back, with the simulation
Outcome(r, p) ==
    [self |-> r.self, env |-> r.env, sim |-> p, ret |-> r.ret, exc |-> r.exc]

\* compute of the class c
ComputeOf(c, s, e, p, in) ==
    CASE c = "DistanceReward" ->
            Outcome(DR_compute(s, e, in.obs, in.rot, in.moved, in.hit), p)
      [] c = "ComplexDistanceReward" ->
            Outcome(CDR_compute(s, e, in.obs, in.hit), p)
      [] c = "PokeReachReward" -> Outcome(PRR_compute(s, e, in), p)
      [] c = "PokeReward.compute" -> Outcome(PR_compute(s, e, in), p)
      [] c = "PokeVectorReward" -> Outcome(PV_compute(s, e, in), p)
      [] c = "VectorReward" ->
            Outcome(Vec_compute(s, [e EXCEPT !.episode_reward = in.episode_reward],
                                in.obs, in.contacts, in.points, in.hit), p)
      [] c = "DualPoke" -> Outcome(DP_compute(s, e, in), p)
      [] c = "PickAndPlace" ->
            Only({Outcome(r, r.sim) :
                     r \in {PnP_compute(s, e, p, in.obs, in.rot, in.hit)}})
      [] c = "ConsequentialPickAndPlace" ->
            Only({Outcome(r, r.sim) :
                     r \in {CPP_compute(s, e, p, in.obs, in.rot, in.hit)}})

\* the environment's reset followed by reset of the class c
ResetOf(c, s, e) ==
    CASE c = "DistanceReward" -> [self |-> DR_reset(s), env |-> EnvReset(e)]
      [] c = "ComplexDistanceReward" ->
            [self |-> CDR_reset(s), env |-> EnvReset(e)]
      [] c = "PokeReachReward" -> [self |-> PRR_reset(s), env |-> EnvReset(e)]
      [] c = "PokeReward.compute" -> [self |-> PR_reset(s), env |-> EnvReset(e)]
      [] c = "PokeVectorReward" -> [self |-> PV_reset(s), env |-> EnvReset(e)]
      [] c = "VectorReward" -> Vec_reset(s, EnvReset(e))
      [] c = "DualPoke" -> [self |-> DP_reset(s), env |-> EnvReset(e)]
      [] c = "PickAndPlace" -> [self |-> PnP_reset(s), env |-> EnvReset(e)]
      [] c = "ConsequentialPickAndPlace" ->
            [self |-> CPP_reset(s), env |-> EnvReset(e)]

\* the first run starts as any strategy starts; the second is the same class
\* as constructed, in an environment at the start of an episode
TwinStarts ==
    {[cls |-> "DistanceReward", self |-> DR_init,
      env |-> [EnvInit EXCEPT !.reward_type = t]] : t \in RewardTypes}
    \cup
    {[cls |-> c, self |-> ConstructorOf(c),
      env |-> IF c = "VectorReward" THEN VecEnvInit ELSE EnvInit] :
        c \in {"ComplexDistanceReward", "PokeReachReward", "PokeReward.compute",
               "PokeVectorReward", "VectorReward", "DualPoke", "PickAndPlace",
               "ConsequentialPickAndPlace"}}
    \cup
    {[cls |-> "PokeReachReward", self |-> p.self, env |-> p.env] :
        p \in {PRR_after(MovedAfterSteps)}}
    \cup
    {[cls |-> "DualPoke", self |-> p.self, env |-> p.env] :
        p \in {DP_after(MovedAfterSteps)}}

InitTwin ==
    \E st \in TwinStarts :
        /\ cls = st.cls
        /\ self = st.self
        /\ env = st.env
        /\ sim = SimInit
        /\ call = CallInit
        /\ frame = [pc |-> "twin", before |-> 0, after |-> 0,
                    self |-> ConstructorOf(st.cls), env |-> EnvReset(st.env),
                    sim |-> SimInit, ret |-> None, exc |-> ""]

\* a compute call of the first run before its reset
TwinBefore ==
    /\ frame.pc = "twin"
    /\ frame.after = 0
    /\ call.op # "reset"
    /\ frame.before < MaxBefore
    /\ \E in \in TwinInputs(cls, env) :
          \E r \in {ComputeOf(cls, self, EnvStep(env), sim, in)} :
              /\ self' = r.self
              /\ env' = r.env
              /\ sim' = r.sim
              /\ call' = [CallInit EXCEPT !.op = "before", !.obs = in.obs,
                                          !.ret = r.ret, !.exc = r.exc]
    /\ frame' = [frame EXCEPT !.before = @ + 1]
    /\ UNCHANGED cls

\* both runs are reset
TwinReset ==
    /\ frame.pc = "twin"
    /\ frame.after = 0
    /\ call.op # "reset"
    /\ \E r1 \in {ResetOf(cls, self, env)},
          r2 \in {ResetOf(cls, frame.self, frame.env)} :
          /\ self' = r1.self
          /\ env' = r1.env
          /\ frame' = [frame EXCEPT !.self = r2.self, !.env = r2.env]
    /\ call' = [CallInit EXCEPT !.op = "reset"]
    /\ UNCHANGED <<cls, sim>>

\* a compute call of both runs, with the same observation and answers
TwinAfter ==
    /\ frame.pc = "twin"
    /\ call.op \in {"reset", "compute"}
    /\ frame.after < MaxAfter
    /\ \E in \in TwinInputs(cls, env) :
          \E r1 \in {ComputeOf(cls, self, EnvStep(env), sim, in)},
             r2 \in {ComputeOf(cls, frame.self, EnvStep(frame.env),
                               frame.sim, in)} :
              /\ self' = r1.self
              /\ env' = r1.env
              /\ sim' = r1.sim
              /\ call' = [CallInit EXCEPT !.op = "compute",
                                          !.n = frame.after + 1,
                                          !.first = (call.op = "reset"),
                                          !.obs = in.obs,
                                          !.ret = r1.ret, !.exc = r1.exc]
              /\ frame' = [frame EXCEPT !.after = @ + 1,
                                        !.self = r2.self, !.env = r2.env,
                                        !.sim = r2.sim,
                                        !.ret = r2.ret, !.exc = r2.exc]
    /\ UNCHANGED cls

NextTwin == TwinBefore \/ TwinReset \/ TwinAfter

SpecTwin == InitTwin /\ [][NextTwin]_vars

\* C17: for every strategy, a compute call after the reset returns (or
\* raises) in the run that made compute calls before the reset what it
\* returns (or raises) in the run that made none, the observations and the
\* collaborators' answers after the reset being the same; so the rewards
\* after a reset do not depend on the calls before it.
C17_SameRewards ==
    (frame.pc = "twin" /\ call.op = "compute")
        => /\ call.ret = frame.ret
           /\ call.exc = frame.exc
           /\ SubSeq(self.rewards_history,
                     Len(self.rewards_history) - Len(frame.self.rewards_history) + 1,
                     Len(self.rewards_history))
                 = frame.self.rewards_history

\* C17: a DualPoke whose poker was touched before the reset returns, in the
\* second call after the reset, a reward other than 0, with the gripper
\* still aiming
C17_Witness ==
    /\ frame.pc = "twin"
    /\ cls = "DualPoke"
    /\ call.op = "compute"
    /\ frame.before = 1
    /\ frame.after = 2
    /\ self.tuched = "True"
    /\ call.exc = ""
    /\ call.ret # 0
    /\ self.last_owner = AIM

(***************************************************************************)
(* The composite strategies: DualPoke, PickAndPlace and                    *)
(* ConsequentialPickAndPlace                                               *)
(***************************************************************************)
Composite == {"DualPoke", "PickAndPlace", "ConsequentialPickAndPlace"}

InitComposite == InitDP \/ InitPnP \/ InitCPP

NextComposite == NextDP \/ NextPnP \/ NextCPP

SpecComposite == InitComposite /\ [][NextComposite]_vars

\* the distance the phase named by owner measures in the call c of class k
PhaseDist(k, c, owner) ==
    IF k = "DualPoke"
    THEN IF owner = AIM
         THEN calc_distance(CPP_gripper(c),
                            DP_get_aim_point(CPP_goal(c), CPP_object(c)))
         ELSE calc_distance(CPP_object(c), CPP_goal(c))
    ELSE IF k = "PickAndPlace"
    THEN IF owner = FIND THEN calc_distance(CPP_gripper(c), CPP_object(c))
         ELSE IF owner = LIFT THEN 0
         ELSE IF owner = MOVE THEN CPP_planar(c)
         ELSE calc_distance(CPP_object(c), CPP_goal(c))
    ELSE CPP_phase_dist(c, owner)

\* the reward of a call c1 of the phase against the distance (and for the
\* move phase the height) measured at the call c0 before it
PhaseReward(k, c0, c1, owner) ==
    IF k = "DualPoke" /\ owner = POKE
    THEN 5 * (PhaseDist(k, c0, owner) - PhaseDist(k, c1, owner))
    ELSE IF \/ k = "PickAndPlace" /\ owner = MOVE
            \/ k = "ConsequentialPickAndPlace" /\ owner = 1
    THEN (PhaseDist(k, c0, owner) - PhaseDist(k, c1, owner))
            + Abs(CPP_object(c0)[3] - CPP_object(c1)[3])
    ELSE PhaseDist(k, c0, owner) - PhaseDist(k, c1, owner)

\* the step is a compute call that returns, made after a compute call of the
\* same owner with no reset in between (a too strong poke has its own reward)
SameOwnerStep ==
    /\ cls \in Composite
    /\ call.op = "compute"
    /\ call.exc = ""
    /\ call'.op = "compute"
    /\ call'.exc = ""
    /\ self'.last_owner = self.last_owner
    /\ cls = "DualPoke" => ~call'.strong

\* C21 (as stated): in every composite strategy a compute call whose owner is
\* the owner of the previous compute call returns the reward of its phase
\* against the distance measured at the previous call, so that a change of
\* the distance within a phase gives a nonzero reward; in particular in the
\* MOVE and PLACE phases of ConsequentialPickAndPlace.
C21_Original ==
    [][SameOwnerStep
        => call'.ret = PhaseReward(cls, call, call', self'.last_owner)]_vars

\* the same for DualPoke and PickAndPlace only, and for the FIND phase of
\* ConsequentialPickAndPlace
C21_ElsewhereKept ==
    [][(/\ SameOwnerStep
        /\ cls = "ConsequentialPickAndPlace" => self'.last_owner = 0)
        => call'.ret = PhaseReward(cls, call, call', self'.last_owner)]_vars

\* in ConsequentialPickAndPlace every MOVE and PLACE call returns 0
C21_CPPAlwaysZero ==
    [][(/\ cls = "ConsequentialPickAndPlace"
        /\ call'.op = "compute"
        /\ self'.last_owner \in {1, 2}
        /\ call.op = "compute" => self.last_owner # 2)
        => call'.ret = 0]_vars

\* C22 (as stated): in ConsequentialPickAndPlace the owner advances by at
\* most one phase per compute call: the owner of the first compute call of
\* an episode is FIND (0) or MOVE (1), and every compute call whose owner is
\* PLACE (2) comes after a MOVE call of the same episode (a MOVE call is what
\* takes last_move_dist from None, and only reset puts None back).
C22_Original ==
    [][(/\ cls = "ConsequentialPickAndPlace"
        /\ call'.op = "compute"
        /\ call'.exc = "")
       => /\ call'.first => self'.last_owner \in {0, 1}
          /\ self'.last_owner = 2 => self.last_move_dist # None]_vars

\* what decide of PickAndPlace reads of the object: the handle of the grip,
\* the position before the lift and the lifted flag, with the simulation's
\* constraints to match
PnPDecideStates ==
    {[self |-> [PnP_init EXCEPT !.grip = g, !.object_before_lift = b,
                                !.lifted = l],
      sim |-> IF g = None THEN SimInit
              ELSE [constraints |-> {g}, created |-> g]] :
        g \in {None, 1}, b \in {NoneList(3), <<300, 0, 0>>}, l \in BOOLEAN}

\* the owners decide of PickAndPlace can return
PnPOwners ==
    {PnP_decide(st.self, st.sim, observation, rot).ret :
        st \in PnPDecideStates, observation \in PnPObservations,
        rot \in Orientations}

\* C23 (as stated): each of the four phases FIND, LIFT, MOVE and PLACE of
\* PickAndPlace is reachable: for each there is a state and an observation
\* for which decide returns the phase's owner value.
C23_Original ==
    cls = "PickAndPlace" => {FIND, LIFT, MOVE, PLACE} \subseteq PnPOwners

\* no compute call of PickAndPlace has the owner LIFT, and lift_compute,
\* which alone writes them, leaves last_lift_dist and lifter_reward alone
C23_NeverLift ==
    cls = "PickAndPlace"
        => /\ self.last_owner # LIFT
           /\ self.last_lift_dist = None
           /\ self.lifter_reward = 0

\* the other three owners are the ones decide returns
C23_ThreeOwners == cls = "PickAndPlace" => PnPOwners = {FIND, MOVE, PLACE}

\* the owner values compute of the class k dispatches on
Dispatched(k) ==
    IF k = "DualPoke" THEN {AIM, POKE}
    ELSE IF k = "PickAndPlace" THEN {FIND, LIFT, MOVE, PLACE}
    ELSE {0, 1, 2}

RECURSIVE SumSeq(_)
SumSeq(q) == IF q = <<>> THEN 0 ELSE Head(q) + SumSeq(Tail(q))

\* the last n entries of q
LastN(q, n) == SubSeq(q, Len(q) - n + 1, Len(q))

\* the accumulators of the phases of the class k, by owner value
Accumulators(k, s) ==
    IF k = "DualPoke"
    THEN [o \in {AIM, POKE} |->
            IF o = AIM THEN s.aimer_reward ELSE s.poker_reward]
    ELSE IF k = "PickAndPlace"
    THEN [o \in {FIND, LIFT, MOVE, PLACE} |->
            IF o = FIND THEN s.finder_reward
            ELSE IF o = LIFT THEN s.lifter_reward
            ELSE IF o = MOVE THEN s.mover_reward
            ELSE s.placer_reward]
    ELSE [o \in {0, 1, 2} |->
            IF o = 0 THEN s.finder_reward
            ELSE IF o = 1 THEN s.mover_reward
            ELSE s.placer_reward]

AccumulatorSum(k, s) ==
    IF k = "DualPoke" THEN s.aimer_reward + s.poker_reward
    ELSE s.finder_reward + s.lifter_reward + s.mover_reward + s.placer_reward

\* C25: in DualPoke, PickAndPlace and ConsequentialPickAndPlace the sum of
\* the accumulators of the phases equals the sum of the rewards returned by
\* the compute calls since the last reset (the last episode_steps entries
\* of rewards_history), and a compute call adds its reward to the
\* accumulator of its owner and leaves the other accumulators as they were.
C25_Accumulators ==
    /\ [](cls \in Composite
            => /\ env.episode_steps <= Len(self.rewards_history)
               /\ AccumulatorSum(cls, self)
                     = SumSeq(LastN(self.rewards_history, env.episode_steps)))
    /\ [][(cls \in Composite /\ call'.op = "compute" /\ call'.exc = "")
            => \A o \in DOMAIN Accumulators(cls, self) :
                  Accumulators(cls, self')[o]
                     = IF o = self'.last_owner
                       THEN Accumulators(cls, self)[o] + call'.ret
                       ELSE Accumulators(cls, self)[o]]_vars

\* C25: a DualPoke episode in which both the aimer and the poker have been
\* given a reward other than 0
C25_Witness ==
    /\ cls = "DualPoke"
    /\ call.op = "compute"
    /\ self.aimer_reward # 0
    /\ self.poker_reward # 0
    /\ self.last_owner = POKE

\* the step is a compute call that returns, appends the returned reward to
\* rewards_history and leaves the earlier entries as they were
AppendsReturned ==
    self'.rewards_history = Append(self.rewards_history, call'.ret)

\* C26 (as stated): for every strategy, each compute call that returns
\* appends exactly one scalar to rewards_history, the returned reward, and
\* leaves the earlier entries unchanged; reset leaves rewards_history as it
\* is.
C26_Original ==
    [][/\ (call'.op = "compute" /\ call'.exc = "") => AppendsReturned
       /\ call'.op = "reset" => self'.rewards_history = self.rewards_history]_vars

\* the same for every strategy but VectorReward, and for the calls of
\* VectorReward in which no link touches the distractor
C26_ElsewhereOne ==
    [][/\ (/\ call'.op = "compute"
           /\ call'.exc = ""
           /\ cls = "VectorReward" => call'.contacts = {})
          => AppendsReturned
       /\ call'.op = "reset" => self'.rewards_history = self.rewards_history]_vars

\* the gripper position of a compute call of VectorReward: the last link of
\* its observation
VecGripperOf(c) ==
    LET links == Vec_fill_objects_lists(c.obs).links
    IN  links[Len(links)]

\* the step is a compute call of VectorReward that returns, not through the
\* return of the contact loop, and follows a compute call of the same
\* episode that returned in the same way
VecFollowingCall ==
    /\ cls = "VectorReward"
    /\ call.op = "compute"
    /\ call.exc = ""
    /\ env.episode_info # Crushed
    /\ call'.op = "compute"
    /\ call'.exc = ""
    /\ env'.episode_info # Crushed

\* C27 (as stated): on every compute call of VectorReward after the first of
\* the episode, the real vector starts at the gripper position of the
\* previous compute call, whatever that position's coordinates are, x = 0
\* included.
C27_Original ==
    [][VecFollowingCall
       => Vec_prev(self, VecGripperOf(call')) = VecGripperOf(call)]_vars

\* the same when the previous call's gripper had an x other than 0
C27_NonZeroKept ==
    [][(VecFollowingCall /\ VecGripperOf(call)[1] # 0)
       => Vec_prev(self, VecGripperOf(call')) = VecGripperOf(call)]_vars

\* after a call whose gripper had x = 0 the next call measures from its own
\* gripper position: the real vector is 0 and the alignment term is 0
C27_ZeroForgets ==
    [][(VecFollowingCall /\ VecGripperOf(call)[1] = 0)
       => /\ Vec_prev(self, VecGripperOf(call')) = VecGripperOf(call')
          /\ call'.ret.cos = CosZero]_vars

\* the poker position of a compute call of DualPoke: observation[3:6]
PokerOf(c) == Slice(c.obs, 3, 6)

\* C28: in DualPoke, touched is not set during the settle window: while
\* env.episode_steps is at most 25, after any compute calls of the episode,
\* touched is False, whatever the poker positions of the calls were.
C28_SettleWindow ==
    (cls = "DualPoke" /\ env.episode_steps <= MovedAfterSteps) => ~self.touched

\* C28: the second call of an episode is an AIM call that finds the poker
\* away from where the first call left it
C28_Witness ==
    /\ cls = "DualPoke"
    /\ call.op = "compute"
    /\ call.exc = ""
    /\ env.episode_steps = 2
    /\ call.owner = AIM
    /\ call.prev_poker[1] # None
    /\ call.prev_poker # PokerOf(call)
    /\ ~self.touched

\* the step is a compute call of DualPoke that follows a compute call of the
\* same episode and reports the end of the poke: episode_info is set to
\* "good poke" or "bad poke" by this call
PokeEnded ==
    /\ cls = "DualPoke"
    /\ call.op = "compute"
    /\ call'.op = "compute"
    /\ call'.exc = ""
    /\ call'.owner = POKE
    /\ env'.episode_over
    /\ env'.episode_info \in {"good poke", "bad poke"}

\* C29 (as stated): in the poke phase of DualPoke with touched set, the
\* episode is ended as "good poke" or "bad poke" only on a compute call
\* whose poker position equals the poker position of the previous compute
\* call; while the position changes from call to call the episode is not
\* ended this way.
C29_Original ==
    [][PokeEnded => PokerOf(call') = PokerOf(call)]_vars

\* with touched set, every POKE call that returns ends the episode as
\* "good poke" or "bad poke", whether the poker has moved since the previous
\* call or not
C29_EveryPokeEnds ==
    [][(/\ cls = "DualPoke"
        /\ self.touched
        /\ call'.op = "compute"
        /\ call'.exc = "")
       => /\ env'.episode_over
          /\ env'.episode_info \in {"good poke", "bad poke"}]_vars

\* the step is a compute call of DualPoke that returns and was made with
\* touched set: the call reports the end of the poke
PokeJudged ==
    /\ cls = "DualPoke"
    /\ self.touched
    /\ call'.op = "compute"
    /\ call'.exc = ""

\* the poker's distance from the goal in the observation of a call
PokerGoalDist(c) == calc_distance(PokerOf(c), Slice(c.obs, 0, 3))

\* "bad poke" is reported exactly when the poker ends further than 0.1 from
\* the goal, and "good poke" otherwise
C30_BadPokeByDistance ==
    [][PokeJudged
       => /\ env'.episode_info = "bad poke"
                <=> PokerGoalDist(call') > AimedDist
          /\ env'.episode_info = "good poke"
                <=> PokerGoalDist(call') <= AimedDist]_vars

\* C30 (as stated): in DualPoke, a compute call that sets episode_info to
\* "good poke" does not set episode_failed: an episode that had not failed
\* before the call has not failed after it; and "bad poke" is reported
\* exactly when the poker ends further than 0.1 from the goal.
C30_Original ==
    [][PokeJudged
       => /\ (env'.episode_info = "good poke" /\ ~env.episode_failed)
                => ~env'.episode_failed
          /\ env'.episode_info = "bad poke"
                <=> PokerGoalDist(call') > AimedDist]_vars

\* a call that reports "good poke" has set episode_failed exactly when the
\* poke was too strong
C30_FailedGoodPoke ==
    [][(PokeJudged /\ env'.episode_info = "good poke" /\ ~env.episode_failed)
       => (env'.episode_failed <=> call'.strong)]_vars

(***************************************************************************)
(* The episode's outcome fields                                            *)
(***************************************************************************)
\* the step leaves the flags that are set as they are, and sets
\* episode_failed only together with episode_over
FlagsRaised ==
    /\ env.episode_over => env'.episode_over
    /\ env.episode_failed => env'.episode_failed
    /\ (~env.episode_failed /\ env'.episode_failed) => env'.episode_over

\* the strategy's reset leaves the flags as the environment's reset, which
\* runs before it, left them
FlagsLeftByReset ==
    /\ env'.episode_over = EnvReset(env).episode_over
    /\ env'.episode_failed = EnvReset(env).episode_failed

\* C31: across all strategies, compute and reset never set
\* env.episode_over or env.episode_failed to False, and a compute call that
\* sets episode_failed sets episode_over in the same call; so in every
\* state episode_failed implies episode_over.
C31_FlagsOnlyRaised ==
    /\ [](env.episode_failed => env.episode_over)
    /\ [][/\ call'.op # "reset" => FlagsRaised
          /\ call'.op = "reset" => FlagsLeftByReset]_vars

\* C31: a compute call of PokeReachReward has found the poke too strong and
\* ended the episode as failed
C31_Witness ==
    /\ cls = "PokeReachReward"
    /\ call.op = "compute"
    /\ call.exc = ""
    /\ env.episode_info = "too strong poke"
    /\ env.episode_failed
    /\ env.episode_over

\* the step gives up the grip handle: grip was a constraint's handle and is
\* None or another handle afterwards
HandleDiscarded ==
    /\ cls \in {"PickAndPlace", "ConsequentialPickAndPlace"}
    /\ self.grip # None
    /\ self'.grip # self.grip

\* C32 (as stated): in both pick-and-place strategies, no compute call and
\* no reset gives up a grip handle while the constraint it refers to still
\* exists in the simulation: the constraint has been removed when the handle
\* is discarded.
C32_Original ==
    [][HandleDiscarded => self.grip \notin sim'.constraints]_vars

\* the same for the compute calls: a call that gives up the handle has
\* removed the constraint
C32_ComputeRemoves ==
    [][(HandleDiscarded /\ call'.op = "compute")
       => self.grip \notin sim'.constraints]_vars

\* every reset of an object that holds a handle sets grip to None and leaves
\* the constraint in the simulation
C32_ResetLeaves ==
    [][(HandleDiscarded /\ call'.op = "reset")
       => /\ self'.grip = None
          /\ self.grip \in sim'.constraints]_vars

(***************************************************************************)
(* decide and the previous owner                                           *)
(***************************************************************************)
\* pasts an object may have: previous owner, baseline, accumulator
OtherPasts ==
    {<<None, None, 0>>, <<0, 50, 7>>, <<1, 50, 0>>, <<2, None, 7>>, <<3, 50, 7>>}

\* a PickAndPlace object as s with another previous owner, other baselines
\* and other accumulators
PnP_with(s, lo, d, r) ==
    [s EXCEPT !.last_owner = lo,
              !.last_height = d,
              !.last_find_dist = d,
              !.last_lift_dist = d,
              !.last_move_dist = d,
              !.last_place_dist = d,
              !.finder_reward = r,
              !.lifter_reward = r,
              !.mover_reward = r,
              !.placer_reward = r]

\* a DualPoke object as s with another previous owner, other baselines and
\* other accumulators
DP_with(s, lo, d, r) ==
    [s EXCEPT !.last_owner = lo,
              !.last_aimer_dist = IF d = None THEN 0 ELSE d,
              !.last_poker_dist = IF d = None THEN 0 ELSE d,
              !.aimer_reward = r,
              !.poker_reward = r]

\* C33: PickAndPlace.decide returns the same owner for the same observation
\* in two states that differ only in last_owner, the per-phase baselines and
\* the accumulators; and so does DualPoke.decide, whose answer depends on
\* the observation and touched only.
C33_OwnerForgets ==
    /\ cls = "PickAndPlace"
          => \A observation \in PnPObservations, rot \in Orientations :
                \E b \in {PnP_decide(self, sim, observation, rot).ret} :
                   \A v \in OtherPasts :
                      PnP_decide(PnP_with(self, v[1], v[2], v[3]), sim,
                                 observation, rot).ret = b
    /\ cls = "DualPoke"
          => \A in \in {<<i.obs, i.rot>> : i \in DPInputs} :
                \E b \in {DP_decide(self, in[1], in[2])} :
                   \A v \in {w \in OtherPasts : w[1] \in {None, AIM, POKE}} :
                      \E a \in {DP_decide(DP_with(self, v[1], v[2], v[3]),
                                          in[1], in[2])} :
                         /\ a.ret = b.ret
                         /\ a.exc = b.exc

\* C33: the previous owner of a PickAndPlace object is PLACE, and for one of
\* the observations decide answers MOVE
C33_Witness ==
    /\ cls = "PickAndPlace"
    /\ call.op = "compute"
    /\ self.last_owner = PLACE
    /\ \E observation \in PnPObservations, rot \in Orientations :
          PnP_decide(self, sim, observation, rot).ret = MOVE

(***************************************************************************)
(* The distance from the poke line                                         *)
(***************************************************************************)
\* the height onto side a of the triangle with the sides a, b, c:
\* 2 sqrt(p (p - a) (p - b) (p - c)) / a with p = (a + b + c) / 2
HeronHeight(a, b, c) == ISqrt(Heron16(a, b, c)) \div (2 * a)

\* get_distance_from_poke_line has returned a distance
TriReturned == cls = "PokeReward" /\ frame.pc = "done"

\* C34 (as stated): the planar distance of the gripper from the poke line is
\* the height onto side a of the triangle with the sides a, b, c, and the
\* returned distance is sqrt(z^2 + planar^2).
C34_Original ==
    TriReturned
       => \E planar \in {HeronHeight(frame.a, frame.b, frame.c)} :
             frame.distance = ISqrt(frame.z * frame.z + planar * planar)

\* the returned distance is sqrt(z^2 + planar^2) with, for planar, the
\* square root of the height's value in metres
C34_RootOfHeight ==
    TriReturned
       => \E planar \in {ISqrt(HeronHeight(frame.a, frame.b, frame.c) * 100000)} :
             frame.distance = ISqrt(frame.z * frame.z + planar * planar)

\* C35 (as stated): a triple of distances that violates the triangle
\* inequality or has a base a of length 0 never surfaces as an error:
\* get_distance_from_poke_line returns a distance for every triple of
\* sides, without a division or math-domain error.
C35_Original ==
    cls = "PokeReward" => frame.pc # "raised"

\* the method raises exactly for the triples with a base of length 0, a
\* ZeroDivisionError, and returns a distance for every other triple
C35_ZeroBaseRaises ==
    (cls = "PokeReward" /\ frame.pc \in {"done", "raised"})
       => /\ frame.pc = "raised" <=> frame.a = 0
          /\ frame.pc = "raised" => frame.exc = "ZeroDivisionError"
          /\ frame.pc = "done" => frame.distance # None

(***************************************************************************)
(* PokeReward and PokeVectorReward: is_poker_moving                        *)
(***************************************************************************)
\* the positions at most one unit from q in each coordinate
PokerMoves(q) ==
    {<<q[1] + dx, q[2] + dy, q[3] + dz>> : dx \in {0, 1}, dy \in {0, 1}, dz \in {0, 1}}

\* is_poker_moving of the object's class
PokerMoving(p) ==
    IF cls = "PokeVectorReward" THEN PV_is_poker_moving(self, p)
    ELSE PR_is_poker_moving(self, p)

\* an object of PokeReward or PokeVectorReward that has stored a position
\* of the poker
PokerStored ==
    /\ cls \in {"PokeReward.compute", "PokeVectorReward"}
    /\ self.prev_poker_position[1] # None

\* C36 (as stated): in PokeReward and PokeVectorReward, is_poker_moving
\* returns True whenever the poker's position differs from the stored
\* previous position in any of x, y and z, and False only when all three
\* are equal.
C36_Original ==
    PokerStored
       => \A p \in PokerMoves(self.prev_poker_position) :
             PokerMoving(p) <=> p # self.prev_poker_position

\* is_poker_moving returns True exactly when x or y differs: a position
\* that differs in z only counts as not moved
C36_PlanarOnly ==
    PokerStored
       => \A p \in PokerMoves(self.prev_poker_position) :
             PokerMoving(p) <=> \/ p[1] # self.prev_poker_position[1]
                                \/ p[2] # self.prev_poker_position[2]

(***************************************************************************)
(* PokeReward.compute: the step on which the poker moves                   *)
(***************************************************************************)
\* the step is a compute call of PokeReward that returns and finds the poker
\* away (in x or y) from the position an earlier call stored
PokerMovingStep ==
    /\ cls = "PokeReward.compute"
    /\ call'.op = "compute"
    /\ call'.exc = ""
    /\ self.prev_poker_position[1] # None
    /\ PR_is_poker_moving(self, Slice(call'.obs, 3, 6))

\* C37: in PokeReward.compute, a call that finds the poker moving returns 0
\* and appends it, stores the poker's position in prev_poker_position, and
\* leaves prev_gripper_position, prev_goal_position and last_distance as
\* they were.
C37_MovingStepFrame ==
    [][PokerMovingStep
       => /\ call'.ret = RatInt(0)
          /\ self'.rewards_history = Append(self.rewards_history, RatInt(0))
          /\ self'.prev_poker_position = Slice(call'.obs, 3, 6)
          /\ self'.prev_gripper_position = self.prev_gripper_position
          /\ self'.prev_goal_position = self.prev_goal_position
          /\ self.last_distance # None
                => self'.last_distance = self.last_distance]_vars

\* C37: a call has found the poker moved and left the gripper position of
\* an earlier call in place, the gripper being elsewhere now
C37_Witness ==
    /\ cls = "PokeReward.compute"
    /\ call.op = "compute"
    /\ call.exc = ""
    /\ ~call.first
    /\ call.ret = RatInt(0)
    /\ self.prev_poker_position = Slice(call.obs, 3, 6)
    /\ self.prev_gripper_position
          # VecAdd(Slice(call.obs, 6, 9), PokeDirection(call.rot))

(***************************************************************************)
(* tester.py: the train threads                                            *)
(*                                                                         *)
(* self holds the module's state (last_eval_results in insertion order,    *)
(* evaluation_results_paths), sim the output file, env the command line,   *)
(* frame the position of the main program and of every call of train.      *)
(* The file is a sequence of tokens: "{", one token per entry, "}".        *)
(* Every training subprocess succeeds.                                     *)
(***************************************************************************)
\* parameter combinations of the grid
GridSize == 2

Grid == 1..GridSize

LBrace == [t |-> "{", k |-> 0]

RBrace == [t |-> "}", k |-> 0]

EntryOf(i) == [t |-> "entry", k |-> i]

\* a call of train that has not begun; buf: what json.dump has written to
\* its file object; size: the dict's size when the encoder began to iterate;
\* next: the index of the item the encoder takes next
TrainIdle == [pc |-> "idle", buf |-> <<>>, size |-> None, next |-> 1]

\* a file object's buffer written at the start of the file: the bytes
\* beyond its length stay
Flushed(file, buf) == buf \o SubSeq(file, Len(buf) + 1, Len(file))

InitTester ==
    /\ cls = "tester"
    /\ self = [last_eval_results |-> <<>>,
               evaluation_results_paths |-> [i \in Grid |-> None]]
    /\ \E threaded \in BOOLEAN : env = [threaded |-> threaded]
    /\ sim = [output |-> <<>>]
    /\ call = CallInit
    /\ frame = [main |-> "start", started |-> 0, th |-> [i \in Grid |-> TrainIdle]]

\* lines 54-60: the loop over the grid starts a thread for the next
\* combination, or calls train and waits for it to return
MainStart ==
    /\ cls = "tester"
    /\ frame.main = "start"
    /\ frame.started < GridSize
    /\ env.threaded \/ \A i \in 1..frame.started : frame.th[i].pc = "done"
    /\ frame' = [frame EXCEPT !.started = @ + 1,
                              !.th[frame.started + 1].pc = "train"]
    /\ UNCHANGED <<cls, self, env, sim, call>>

\* lines 62-66: every thread has been joined (every call has returned)
MainEnd ==
    /\ cls = "tester"
    /\ frame.main = "start"
    /\ frame.started = GridSize
    /\ \A i \in Grid : frame.th[i].pc \in {"done", "failed"}
    /\ frame' = [frame EXCEPT !.main = "ended"]
    /\ UNCHANGED <<cls, self, env, sim, call>>

\* lines 36-41: the subprocess has run and its results are loaded
Train(i) ==
    /\ cls = "tester"
    /\ frame.th[i].pc = "train"
    /\ self' = [self EXCEPT !.evaluation_results_paths[i] = i]
    /\ frame' = [frame EXCEPT !.th[i].pc = "update"]
    /\ UNCHANGED <<cls, env, sim, call>>

\* lines 42-43: last_eval_results[str(list(params.values()))] = ...
Update(i) ==
    /\ cls = "tester"
    /\ frame.th[i].pc = "update"
    /\ self' = [self EXCEPT !.last_eval_results =
                   IF \E j \in 1..Len(@) : @[j] = i THEN @ ELSE Append(@, i)]
    /\ frame' = [frame EXCEPT !.th[i].pc = "open"]
    /\ UNCHANGED <<cls, env, sim, call>>

\* line 44: open(args.output, 'w') truncates the file
OpenOut(i) ==
    /\ cls = "tester"
    /\ frame.th[i].pc = "open"
    /\ sim' = [sim EXCEPT !.output = <<>>]
    /\ frame' = [frame EXCEPT !.th[i].pc = "dump"]
    /\ UNCHANGED <<cls, self, env, call>>

\* line 45: json.dump writes the chunks of the encoder, which iterates over
\* the dict's items; an item taken from a dict whose size has changed since
\* the iteration began raises RuntimeError, and the with statement closes
\* the file
DumpStep(i) ==
    /\ cls = "tester"
    /\ frame.th[i].pc = "dump"
    /\ \E d \in {self.last_eval_results} :
       \E size \in {IF frame.th[i].size = None THEN Len(d)
                    ELSE frame.th[i].size} :
       \E next \in {frame.th[i].next} :
       \E buf \in {IF next = 1 THEN <<LBrace>> ELSE frame.th[i].buf} :
          IF Len(d) # size
          THEN /\ sim' = [sim EXCEPT !.output = Flushed(@, buf)]
               /\ frame' = [frame EXCEPT !.th[i].pc = "failed"]
          ELSE IF next > size
          THEN /\ frame' = [frame EXCEPT !.th[i].pc = "close",
                                         !.th[i].buf = Append(buf, RBrace)]
               /\ UNCHANGED sim
          ELSE /\ frame' = [frame EXCEPT !.th[i].size = size,
                                         !.th[i].next = next + 1,
                                         !.th[i].buf = Append(buf, EntryOf(d[next]))]
               /\ UNCHANGED sim
    /\ UNCHANGED <<cls, self, env, call>>

\* the end of the with statement of line 44: the file object is closed and
\* its buffer written
CloseOut(i) ==
    /\ cls = "tester"
    /\ frame.th[i].pc = "close"
    /\ sim' = [sim EXCEPT !.output = Flushed(@, frame.th[i].buf)]
    /\ frame' = [frame EXCEPT !.th[i].pc = "done"]
    /\ UNCHANGED <<cls, self, env, call>>

NextTester ==
    \/ MainStart
    \/ MainEnd
    \/ \E i \in Grid : Train(i)
    \/ \E i \in Grid : Update(i)
    \/ \E i \in Grid : OpenOut(i)
    \/ \E i \in Grid : DumpStep(i)
    \/ \E i \in Grid : CloseOut(i)

SpecTester == InitTester /\ [][NextTester]_vars

\* the file holds one JSON object: "{", entries with distinct keys, "}"
WellFormed(file) ==
    /\ Len(file) >= 2
    /\ file[1] = LBrace
    /\ file[Len(file)] = RBrace
    /\ \A j \in 2..(Len(file) - 1) : file[j].t = "entry"
    /\ \A j, k \in 2..(Len(file) - 1) : file[j] = file[k] => j = k

\* the keys of the entries in the file
EntriesIn(file) == {file[j].k : j \in {k \in 1..Len(file) : file[k].t = "entry"}}

\* the main program has joined every thread of a threaded run
AllJoined == cls = "tester" /\ env.threaded /\ frame.main = "ended"

\* C38 (as stated): with threaded launching, under every interleaving of
\* the train threads, once all threads have been joined no thread has
\* failed and the output file holds a well-formed JSON object with exactly
\* one entry per parameter combination of the grid.
C38_Original ==
    AllJoined
       => /\ \A i \in Grid : frame.th[i].pc = "done"
          /\ WellFormed(sim.output)
          /\ EntriesIn(sim.output) = Grid

\* the updates of the shared dict are not lost: once all threads have been
\* joined, last_eval_results holds one entry per combination and every
\* path is stored
C38_DictComplete ==
    AllJoined
       => /\ Len(self.last_eval_results) = GridSize
          /\ {self.last_eval_results[j] : j \in 1..GridSize} = Grid
          /\ \A i \in Grid : self.evaluation_results_paths[i] = i

\* without threads, the calls of train run one after the other, none fails
\* and the file is complete at the end
C38_Unthreaded ==
    (cls = "tester" /\ ~env.threaded /\ frame.main = "ended")
       => /\ \A i \in Grid : frame.th[i].pc = "done"
          /\ WellFormed(sim.output)
          /\ EntriesIn(sim.output) = Grid

====
